---- MODULE Spec2Model ----
(***************************************************************************)
(* Build scripts of hinahina-vr.github.io:                                 *)
(*   scripts/build-dialogue.mjs       dialogue/*.md -> dialogue.html       *)
(*   scripts/build-video-scripts.mjs  dialogue/*.md -> video-scripts/*.yaml*)
(*     (its text is the second half of src/scripts/build-diary-hina.mjs)   *)
(*   scripts/build-diary.mjs          diary/*.md -> diary.html, and its    *)
(*     monthly version (second half of the file) -> diary-YYYY-MM.html too *)
(*   scripts/build-diary-hina.mjs     diary-hina/*.md -> diary-hina.html   *)
(*                                                                         *)
(* Text is modelled as a sequence of characters, one TLA+ string per       *)
(* character.  A string of more than one character inside such a sequence  *)
(* is a piece of text the scripts generate themselves (an entity, a tag, a *)
(* label) or a stand-in for one non-ASCII character; the emitted text is   *)
(* the concatenation of the elements.                                      *)
(***************************************************************************)
EXTENDS Integers, Sequences, FiniteSets, TLC

VARIABLES
    pc,          \* position of the running function or script
    str,         \* renderInline: its argument
    inlineOut,   \* renderInline: its return value
    tableLines,  \* renderTable: its argument (the raw rows of one table block)
    tableOut,    \* renderTable: the rows it emits, in order
    script,      \* the script that runs: "build-dialogue", "build-video-scripts"
                 \* or one of the diary builds
    dialogueDir, \* DIALOGUE_DIR: its entries [name, raw] in the order readdir lists them
    outFile,     \* OUT_FILE (dialogue.html): [exists, data]
    outDir,      \* OUT_DIR (video-scripts): [exists, files], files: name -> data
    fs0,         \* outFile and outDir as they were before the run
    files,       \* main: the .md names of DIALOGUE_DIR
    idx,         \* main: the index of the running loop (0-based, as in the code)
    raw,         \* main: the text of the file read last
    fm,          \* main: { meta, body } of the file read last
    dialogues,   \* build-dialogue main: the parsed documents
    contentHtml, \* build-dialogue main: the text assembled so far
    emitted,     \* the pieces of contentHtml, each with the source text it renders
    existing,    \* build-video-scripts main: the names readdir(OUT_DIR) listed
    episodes,    \* build-video-scripts main: the parsed documents
    generated,   \* build-video-scripts main: the names of the files written
    scenes,      \* build-video-scripts main: the scenes of the episode written last
    diaryDir,    \* DIARY_DIR: its entries [name, raw] in the order readdir lists them
    site,        \* the pages of the diary builds: file name -> contents
    site0,       \* site as it was before the run
    entries,     \* diary main: the entries pushed so far
    skipped,     \* diary main: the names console.warn reported as skipped
    readLog,     \* the names of the diary files readFile was called on
    months,      \* monthly diary main: the keys of monthMap, in insertion order
    written,     \* diary main: the names of the pages written, in order
    bodyLines,   \* parseDialogue (both): lines, the lines of its argument
    lineNo,      \* parseDialogue (both): the number of lines the loop has taken
    htmlSt,      \* build-dialogue parseDialogue: sections and currentBlock
    videoSt,     \* build-video-scripts parseDialogue: sections and currentSpeech
    htmlOrigin,  \* for each block of htmlSt, the number of the line that opened it
    videoOrigin, \* for each block of videoSt, the number of the line that opened it
    section,     \* toSceneLines: its argument
    sceneLines,  \* toSceneLines: its return value
    warned,      \* console.warn was called
    exitCode     \* the exit status of the process, -1 while it runs

inlineVars == <<str, inlineOut>>
tableVars == <<tableLines, tableOut>>
fsVars == <<dialogueDir, outFile, outDir, fs0>>
mainVars == <<script, files, idx, raw, fm, dialogues, contentHtml, emitted,
              warned, exitCode>>
vidVars == <<existing, episodes, generated, scenes>>
sceneVars == <<section, sceneLines>>
diaryVars == <<diaryDir, site, site0, entries, skipped, readLog, months, written>>
runVars == <<fsVars, mainVars, vidVars, diaryVars>>
parseVars == <<bodyLines, lineNo, htmlSt, videoSt, htmlOrigin, videoOrigin>>
vars == <<pc, inlineVars, tableVars, sceneVars, runVars, parseVars>>

\* The variables of the functions and scripts that are not running
InlineIdle == str = <<>> /\ inlineOut = <<>>
TableIdle == tableLines = <<>> /\ tableOut = <<>>
NoFile == [exists |-> FALSE, data |-> <<>>]
NoDir == [exists |-> FALSE, files |-> [n \in {} |-> <<>>]]
MainIdle ==
    /\ files = <<>> /\ idx = 0 /\ raw = <<>>
    /\ fm = [meta |-> [k \in {} |-> <<>>], body |-> <<>>]
    /\ dialogues = <<>> /\ contentHtml = <<>> /\ emitted = <<>>
    /\ existing = <<>> /\ episodes = <<>> /\ generated = <<>> /\ scenes = <<>>
    /\ warned = FALSE /\ exitCode = -1
NoSite == [n \in {} |-> <<>>]
DiaryIdle ==
    /\ entries = <<>> /\ skipped = <<>> /\ readLog = {} /\ months = <<>>
    /\ written = <<>>
RunIdle ==
    /\ script = "none" /\ dialogueDir = <<>>
    /\ diaryDir = <<>> /\ site = NoSite /\ site0 = NoSite /\ DiaryIdle
    /\ outFile = NoFile /\ outDir = NoDir /\ fs0 = [outFile |-> NoFile, outDir |-> NoDir]
    /\ MainIdle
SceneIdle == section = [title |-> <<>>, blocks |-> <<>>] /\ sceneLines = <<>>
NoParse == [sections |-> <<>>, block |-> [type |-> "none"]]
NoOrigin == [sections |-> <<>>, open |-> 0]
ParseIdle ==
    /\ bodyLines = <<>> /\ lineNo = 0
    /\ htmlSt = NoParse /\ videoSt = NoParse
    /\ htmlOrigin = NoOrigin /\ videoOrigin = NoOrigin
notInline == <<tableVars, sceneVars, runVars, parseVars>>
notTable == <<inlineVars, sceneVars, runVars, parseVars>>
notScene == <<inlineVars, tableVars, runVars, parseVars>>
notRun == <<inlineVars, tableVars, sceneVars, parseVars>>
notParse == <<inlineVars, tableVars, sceneVars, runVars>>

(***************************************************************************)
(* Bounds of the model                                                     *)
(***************************************************************************)
MaxInlineLen == 4
MaxAttrLen == 1
MaxTableRows == 2
MaxRowLen == 3
MaxFiles == 3
MaxDocLines == 4

(***************************************************************************)
(* Characters and string helpers                                           *)
(***************************************************************************)
LF == "\n"
CR == "\r"
TAB == "\t"
QUOT == "\""
\* U+3000 IDEOGRAPHIC SPACE, which JavaScript's \s and trim() treat as space
IDSP == "U3000"
\* U+FEFF, the byte-order mark, which \s and trim() treat as space too
BOM == "UFEFF"

\* JavaScript \s, over the characters the model uses
IsSpace(c) == c \in {" ", TAB, LF, CR, IDSP, BOM}

\* JavaScript \w, over the characters the model uses
WordChars == {"a", "b", "c", "d", "e", "f", "g", "h", "i", "j", "k", "l", "m",
              "n", "o", "p", "q", "r", "s", "t", "u", "v", "w", "x", "y", "z",
              "A", "B", "C", "D", "E", "F", "G", "H", "I", "J", "K", "L", "M",
              "N", "O", "P", "Q", "R", "S", "T", "U", "V", "W", "X", "Y", "Z",
              "0", "1", "2", "3", "4", "5", "6", "7", "8", "9", "_"}
IsWord(c) == c \in WordChars

\* Strings of length 0..n over the alphabet A
StringsUpTo(A, n) == UNION {[1..k -> A] : k \in 0..n}

RECURSIVE Flatten(_)
Flatten(ss) == IF ss = <<>> THEN <<>> ELSE Head(ss) \o Flatten(Tail(ss))

\* Array.prototype.join
RECURSIVE Join(_, _)
Join(ss, sep) ==
    IF ss = <<>> THEN <<>>
    ELSE IF Len(ss) = 1 THEN ss[1]
    ELSE ss[1] \o sep \o Join(Tail(ss), sep)

\* String.prototype.startsWith / endsWith
StartsWith(s, p) == Len(s) >= Len(p) /\ SubSeq(s, 1, Len(p)) = p
EndsWith(s, p) == Len(s) >= Len(p) /\ SubSeq(s, Len(s) - Len(p) + 1, Len(s)) = p

\* String.prototype.trim
RECURSIVE TrimStart(_)
TrimStart(s) == IF s # <<>> /\ IsSpace(Head(s)) THEN TrimStart(Tail(s)) ELSE s
RECURSIVE TrimEnd(_)
TrimEnd(s) ==
    IF s # <<>> /\ IsSpace(s[Len(s)]) THEN TrimEnd(SubSeq(s, 1, Len(s) - 1)) ELSE s
Trim(s) == TrimEnd(TrimStart(s))

\* s.replace(/c/g, rep) for a single character c and a replacement text rep
ReplaceChar(s, c, rep) ==
    Flatten([i \in 1..Len(s) |-> IF s[i] = c THEN rep ELSE <<s[i]>>])

\* The least index in lo..hi at which P holds, or 0
FirstIndex(lo, hi, P(_)) ==
    IF \E i \in lo..hi : P(i)
    THEN CHOOSE i \in lo..hi : P(i) /\ \A j \in lo..(i - 1) : ~P(j)
    ELSE 0

\* String.prototype.split(sep) for a single-character separator
RECURSIVE SplitChar(_, _)
SplitChar(s, sep) ==
    LET k == FirstIndex(1, Len(s), LAMBDA i : s[i] = sep)
    IN  IF k = 0 THEN <<s>>
        ELSE <<SubSeq(s, 1, k - 1)>> \o SplitChar(SubSeq(s, k + 1, Len(s)), sep)

\* String.prototype.split(/\r?\n/)
RECURSIVE SplitLines(_)
SplitLines(s) ==
    LET k == FirstIndex(1, Len(s), LAMBDA i : s[i] = LF)
    IN  IF k = 0 THEN <<s>>
        ELSE <<SubSeq(s, 1, IF k > 1 /\ s[k - 1] = CR THEN k - 2 ELSE k - 1)>>
             \o SplitLines(SubSeq(s, k + 1, Len(s)))

\* The length of the leading run of characters of s that satisfy P
RunLength(s, P(_)) ==
    LET k == FirstIndex(1, Len(s), LAMBDA i : ~P(s[i]))
    IN  IF k = 0 THEN Len(s) ELSE k - 1

\* s from index i to its end
From(s, i) == SubSeq(s, i, Len(s))

(***************************************************************************)
(* parseFrontmatter (build-dialogue.mjs; build-video-scripts.mjs and       *)
(* build-galge.mjs hold the same text).  The lines the scripts handle hold *)
(* no line terminator: split(/\r?\n/) removed LF and CR LF, and the        *)
(* documents of the model hold no CR that is not followed by LF.           *)
(***************************************************************************)
DELIM == <<"-", "-", "-">>

\* raw.replace(/^\uFEFF?/, "")
StripBom(rawText) ==
    IF rawText # <<>> /\ Head(rawText) = BOM THEN Tail(rawText) ELSE rawText

\* The length of the match of /\r?\n/ at index i of s (0: no match)
EolAt(s, i) ==
    IF i <= Len(s) /\ s[i] = LF THEN 1
    ELSE IF i + 1 <= Len(s) /\ s[i] = CR /\ s[i + 1] = LF THEN 2
    ELSE 0

\* The length of the match of /\r?\n---\r?\n/ at index i of s (0: no match)
ClosingAt(s, i) ==
    LET a == EolAt(s, i)
    IN  IF a = 0 \/ i + a + 2 > Len(s) \/ SubSeq(s, i + a, i + a + 2) # DELIM THEN 0
        ELSE LET b == EolAt(s, i + a + 3)
             IN  IF b = 0 THEN 0 ELSE a + 3 + b

\* cleaned.match(/^---\r?\n([\s\S]*?)\r?\n---\r?\n([\s\S]*)$/):
\* [ok, head (group 1), rest (group 2)]
FrontmatterMatch(cleaned) ==
    LET open == IF StartsWith(cleaned, DELIM) THEN EolAt(cleaned, 4) ELSE 0
        p0 == 4 + open
        e == IF open = 0 THEN 0
             ELSE FirstIndex(p0, Len(cleaned), LAMBDA i : ClosingAt(cleaned, i) # 0)
    IN  IF e = 0 THEN [ok |-> FALSE, head |-> <<>>, rest |-> <<>>]
        ELSE [ok |-> TRUE,
              head |-> SubSeq(cleaned, p0, e - 1),
              rest |-> From(cleaned, e + ClosingAt(cleaned, e))]

\* line.match(/^(\w+)\s*:\s*(.+)$/): [ok, key (group 1), value (group 2)]
KeyValueMatch(line) ==
    LET w == RunLength(line, IsWord)
        afterKey == From(line, w + 1)
        sp == RunLength(afterKey, IsSpace)
        afterSp == From(afterKey, sp + 1)
    IN  IF w = 0 \/ afterSp = <<>> \/ Head(afterSp) # ":" \/ Tail(afterSp) = <<>>
        THEN [ok |-> FALSE, key |-> <<>>, value |-> <<>>]
        ELSE LET v == Tail(afterSp)
                 k == RunLength(v, IsSpace)
             IN  [ok |-> TRUE, key |-> SubSeq(line, 1, w),
                  \* \s* gives its last character back when nothing follows it
                  value |-> IF k = Len(v) THEN <<v[k]>> ELSE From(v, k + 1)]

\* The loop over the lines of the block: meta[kv[1]] = kv[2].trim()
RECURSIVE MetaOfLines(_, _)
MetaOfLines(lines, meta) ==
    IF lines = <<>> THEN meta
    ELSE LET kv == KeyValueMatch(Head(lines))
         IN  MetaOfLines(Tail(lines),
                 IF kv.ok
                 THEN [k \in DOMAIN meta \cup {kv.key} |->
                          IF k = kv.key THEN Trim(kv.value) ELSE meta[k]]
                 ELSE meta)

\* meta = {}
EmptyMeta == [k \in {} |-> <<>>]

\* parseFrontmatter without the removal of the byte-order mark
parseFrontmatterKeepBom(rawText) ==
    LET m == FrontmatterMatch(rawText)
    IN  IF ~m.ok THEN [meta |-> EmptyMeta, body |-> rawText]
        ELSE [meta |-> MetaOfLines(SplitLines(m.head), EmptyMeta), body |-> m.rest]

parseFrontmatter(rawText) ==
    LET cleaned == StripBom(rawText)
        m == FrontmatterMatch(cleaned)
    IN  IF ~m.ok THEN [meta |-> EmptyMeta, body |-> cleaned]
        ELSE [meta |-> MetaOfLines(SplitLines(m.head), EmptyMeta), body |-> m.rest]

\* meta.key || fallback
MetaOr(meta, key, fallback) ==
    IF key \in DOMAIN meta /\ meta[key] # <<>> THEN meta[key] ELSE fallback

(***************************************************************************)
(* parseDialogue (build-dialogue.mjs)                                      *)
(***************************************************************************)
NoBlock == [type |-> "none"]

\* line.match(/^##\s+(.+)$/): [ok, title (group 1)]
HeadingMatch(line) ==
    LET k == IF StartsWith(line, <<"#", "#">>) THEN RunLength(From(line, 3), IsSpace)
             ELSE 0
    IN  IF k = 0 THEN [ok |-> FALSE, title |-> <<>>]
        ELSE IF 2 + k < Len(line) THEN [ok |-> TRUE, title |-> From(line, 3 + k)]
        \* \s+ gives its last character back when nothing follows it
        ELSE IF k >= 2 THEN [ok |-> TRUE, title |-> <<line[Len(line)]>>]
        ELSE [ok |-> FALSE, title |-> <<>>]

\* line.match(/^\*\*(.+?)\*\*:\s*(.*)$/): [ok, speaker (group 1), text (group 2)]
SpeakerMatch(line) ==
    LET q == IF StartsWith(line, <<"*", "*">>)
             THEN FirstIndex(4, Len(line) - 2,
                      LAMBDA i : SubSeq(line, i, i + 2) = <<"*", "*", ":">>)
             ELSE 0
    IN  IF q = 0 THEN [ok |-> FALSE, speaker |-> <<>>, text |-> <<>>]
        ELSE [ok |-> TRUE, speaker |-> SubSeq(line, 3, q - 1),
              text |-> TrimStart(From(line, q + 3))]

\* /^!\[.*\]\(.*\)$/ on a trimmed line
IsImageLine(t) ==
    /\ StartsWith(t, <<"!", "[">>)
    /\ t[Len(t)] = ")"
    /\ \E i \in 3..(Len(t) - 2) : t[i] = "]" /\ t[i + 1] = "("

\* t.replace(/^>\s*/, '') on a line that starts with ">"
QuoteText(t) == TrimStart(Tail(t))

\* currentSection.blocks.unshift(b): the block put before the others
PushBlockFirst(sections, b) ==
    [sections EXCEPT ![Len(sections)].blocks = <<b>> \o @]

\* currentSection.blocks.push(b), the current section being the last one
PushBlock(sections, b) ==
    [sections EXCEPT ![Len(sections)].blocks = Append(@, b)]

\* if (currentBlock && currentSection) currentSection.blocks.push(currentBlock)
FlushBlock(st) ==
    IF st.block # NoBlock /\ st.sections # <<>>
    THEN PushBlock(st.sections, st.block) ELSE st.sections

\* The last block of the current section, or NoBlock
LastBlock(sections) ==
    IF sections = <<>> \/ sections[Len(sections)].blocks = <<>> THEN NoBlock
    ELSE LET bs == sections[Len(sections)].blocks IN bs[Len(bs)]

\* A table row: joins the table block that ends the section or opens one
PushTableLine(sections, t) ==
    IF sections = <<>> THEN sections
    ELSE IF LastBlock(sections).type = "table"
    THEN LET n == Len(sections[Len(sections)].blocks)
         IN  [sections EXCEPT ![Len(sections)].blocks[n].lines = Append(@, t)]
    ELSE PushBlock(sections, [type |-> "table", lines |-> <<t>>])

\* One iteration of the loop of parseDialogue.  st.sections are the sections
\* so far (currentSection is the last one, null when there is none) and
\* st.block is currentBlock.
DialogueLine(st, line) ==
    LET h == HeadingMatch(line)
        sp == SpeakerMatch(line)
        t == Trim(line)
        flushed == FlushBlock(st)
    IN  IF h.ok
        THEN [sections |-> Append(flushed, [title |-> h.title, blocks |-> <<>>]),
              block |-> NoBlock]
        ELSE IF sp.ok
        THEN [sections |-> flushed,
              block |-> [type |-> "speech", speaker |-> sp.speaker,
                         paragraphs |-> IF Trim(sp.text) # <<>>
                                        THEN <<Trim(sp.text)>> ELSE <<>>]]
        ELSE IF t = <<>> THEN st
        ELSE IF IsImageLine(t)
        THEN [sections |-> IF flushed = <<>> THEN flushed
                           ELSE PushBlock(flushed, [type |-> "image", raw |-> t]),
              block |-> NoBlock]
        ELSE IF Head(t) = "|"
        THEN [sections |-> PushTableLine(flushed, t), block |-> NoBlock]
        ELSE IF Head(t) = ">"
        THEN [sections |-> IF flushed = <<>> THEN flushed
                           ELSE PushBlock(flushed,
                                    [type |-> "quote", text |-> QuoteText(t)]),
              block |-> NoBlock]
        ELSE IF st.block # NoBlock
        THEN [st EXCEPT !.block.paragraphs = Append(@, t)]
        ELSE st

RECURSIVE DialogueLines(_, _)
DialogueLines(st, lines) ==
    IF lines = <<>> THEN st
    ELSE DialogueLines(DialogueLine(st, Head(lines)), Tail(lines))

parseDialogue(body) ==
    FlushBlock(DialogueLines([sections |-> <<>>, block |-> NoBlock], SplitLines(body)))

(***************************************************************************)
(* renderInline (build-dialogue.mjs)                                       *)
(***************************************************************************)
AMP_ENT == "&amp;"
LT_ENT == "&lt;"
GT_ENT == "&gt;"
STRONG_OPEN == "<strong>"
STRONG_CLOSE == "</strong>"
IMG_OPEN == "<img src=\""
IMG_ALT == "\" alt=\""
IMG_CLOSE == "\" style=\"max-width:100%;margin:12px 0;border-radius:4px;\">"

\* .replace(/\*\*(.+?)\*\*/g, "<strong>$1</strong>"), scanning from index p
RECURSIVE ReplaceBoldFrom(_, _)
ReplaceBoldFrom(s, p) ==
    IF p > Len(s) THEN <<>>
    ELSE LET q == IF s[p] = "*" /\ p + 1 <= Len(s) /\ s[p + 1] = "*"
                  THEN FirstIndex(p + 3, Len(s) - 1,
                                  LAMBDA i : s[i] = "*" /\ s[i + 1] = "*")
                  ELSE 0
         IN  IF q # 0
             THEN <<STRONG_OPEN>> \o SubSeq(s, p + 2, q - 1) \o <<STRONG_CLOSE>>
                  \o ReplaceBoldFrom(s, q + 2)
             ELSE <<s[p]>> \o ReplaceBoldFrom(s, p + 1)

\* The match of /!\[([^\]]*)\]\(([^)]+)\)/ that starts at index p:
\* <<index of "]", index of ")">>, or <<0, 0>> when there is none
ImageMatchAt(s, p) ==
    IF ~(s[p] = "!" /\ p + 1 <= Len(s) /\ s[p + 1] = "[") THEN <<0, 0>>
    ELSE LET r == FirstIndex(p + 2, Len(s), LAMBDA i : s[i] = "]")
         IN  IF r = 0 \/ r + 1 > Len(s) \/ s[r + 1] # "(" THEN <<0, 0>>
             ELSE LET t == FirstIndex(r + 2, Len(s), LAMBDA i : s[i] = ")")
                  IN  IF t = 0 \/ t < r + 3 THEN <<0, 0>> ELSE <<r, t>>

\* s.replace(/!\[([^\]]*)\]\(([^)]+)\)/g, '<img src="$2" alt="$1" style=...>')
RECURSIVE ReplaceImageFrom(_, _)
ReplaceImageFrom(s, p) ==
    IF p > Len(s) THEN <<>>
    ELSE LET m == ImageMatchAt(s, p)
         IN  IF m[1] # 0
             THEN <<IMG_OPEN>> \o SubSeq(s, m[1] + 2, m[2] - 1) \o <<IMG_ALT>>
                  \o SubSeq(s, p + 2, m[1] - 1) \o <<IMG_CLOSE>>
                  \o ReplaceImageFrom(s, m[2] + 1)
             ELSE <<s[p]>> \o ReplaceImageFrom(s, p + 1)

\* The escaping chain of renderInline: & first, then <, then >
EscapeChain(s) ==
    ReplaceChar(ReplaceChar(ReplaceChar(s, "&", <<AMP_ENT>>), "<", <<LT_ENT>>),
                ">", <<GT_ENT>>)

renderInline(s) == ReplaceImageFrom(ReplaceBoldFrom(EscapeChain(s), 1), 1)

\* escapeHtml is an alias of renderInline
escapeHtml(s) == renderInline(s)

(***************************************************************************)
(* Specification of renderInline as a function of its argument            *)
(***************************************************************************)
InlineAlphabet == {"&", "<", ">", QUOT, "*", "!", "[", "]", "(", ")", "a"}

\* every short string, every image reference and every bold run with short parts
InlineInputs ==
    StringsUpTo(InlineAlphabet, MaxInlineLen)
    \cup {<<"!", "[">> \o a \o <<"]", "(">> \o b \o <<")">> :
             a \in StringsUpTo(InlineAlphabet, MaxAttrLen),
             b \in StringsUpTo(InlineAlphabet, MaxAttrLen)}
    \cup {<<"*", "*">> \o a \o <<"*", "*">> \o b :
             a \in StringsUpTo(InlineAlphabet, MaxAttrLen),
             b \in StringsUpTo(InlineAlphabet, MaxAttrLen)}

InitInline ==
    /\ pc = "renderInline"
    /\ str \in InlineInputs
    /\ inlineOut = <<>>
    /\ TableIdle /\ SceneIdle /\ RunIdle /\ ParseIdle

CallRenderInline ==
    /\ pc = "renderInline"
    /\ inlineOut' = renderInline(str)
    /\ pc' = "returned"
    /\ UNCHANGED <<str, notInline>>

NextInline == CallRenderInline

SpecInline == InitInline /\ [][NextInline]_vars

\* The four HTML-sensitive characters, as characters of the source text
Sensitive == {"&", "<", ">", QUOT}

\* C1: after renderInline, no unescaped &, <, > or double quote taken from the
\* source text is left in the emitted HTML (the src/alt attributes included).
C1_AllFourEscaped ==
    pc = "returned" => \A i \in 1..Len(inlineOut) : inlineOut[i] \notin Sensitive

(***************************************************************************)
(* renderTable (build-dialogue.mjs)                                        *)
(***************************************************************************)
TABLE_OPEN == "<table style=\"width:100%;border-collapse:collapse;margin:12px 0;font-size:13px;\">"
TABLE_CLOSE == "</table>"
TR_OPEN == "<tr>"
TR_CLOSE == "</tr>"

\* /^[-:]+$/.test(c)
IsDashCell(c) == c # <<>> /\ \A k \in 1..Len(c) : c[k] \in {"-", ":"}

\* line.split('|').filter((_, j, a) => j > 0 && j < a.length - 1).map(c => c.trim())
TableCells(line) ==
    LET a == SplitChar(line, "|")
    IN  [j \in 1..(IF Len(a) >= 2 THEN Len(a) - 2 ELSE 0) |-> Trim(a[j + 1])]

\* cells.every(c => /^[-:]+$/.test(c))
IsSeparatorRow(cells) == \A j \in 1..Len(cells) : IsDashCell(cells[j])

\* The tag renderTable gives the row at (0-based) index i
RowTag(i) == IF i = 0 THEN "th" ELSE "td"

\* The loop of renderTable from (0-based) index i: the rows it emits, each
\* with its tag and its cells (before renderInline)
RECURSIVE TableRowsFrom(_, _)
TableRowsFrom(lines, i) ==
    IF i >= Len(lines) THEN <<>>
    ELSE LET cells == TableCells(lines[i + 1])
         IN  IF IsSeparatorRow(cells) THEN TableRowsFrom(lines, i + 1)
             ELSE <<[tag |-> RowTag(i), cells |-> cells]>>
                  \o TableRowsFrom(lines, i + 1)

renderTableRows(lines) == TableRowsFrom(lines, 0)

\* `<${tag} ${style}>` and `</${tag}>`
CellOpen(tag) ==
    IF tag = "th"
    THEN "<th style=\"border-bottom:1px solid #555;padding:4px 8px;color:#e0c8a0;text-align:left;\">"
    ELSE "<td style=\"padding:4px 8px;border-bottom:1px solid #333;\">"
CellClose(tag) == IF tag = "th" THEN "</th>" ELSE "</td>"

\* The text of one emitted row
RowHtml(row) ==
    <<TR_OPEN>>
    \o Flatten([j \in 1..Len(row.cells) |->
                  <<CellOpen(row.tag)>> \o renderInline(row.cells[j])
                  \o <<CellClose(row.tag)>>])
    \o <<TR_CLOSE>>

\* renderTable: the HTML text
renderTable(lines) ==
    LET rows == renderTableRows(lines)
    IN  <<TABLE_OPEN>> \o Flatten([k \in 1..Len(rows) |-> RowHtml(rows[k])])
        \o <<TABLE_CLOSE>>

(***************************************************************************)
(* Specification of renderTable as a function of its argument              *)
(***************************************************************************)
TableAlphabet == {"|", "-", ":", "a", " "}

\* Rows as parseDialogue produces them: trimmed, starting with a pipe
TableRowInputs ==
    {r \in {<<"|">> \o x : x \in StringsUpTo(TableAlphabet, MaxRowLen)} : Trim(r) = r}

\* The table of the documented example
ExampleTable ==
    << <<"|", "a", "|", "b", "|">>,
       <<"|", "-", "-", "|", "-", "-", "|">>,
       <<"|", "1", "|", "2", "|">> >>

InitTable ==
    /\ pc = "renderTable"
    /\ tableLines \in UNION {[1..n -> TableRowInputs] : n \in 0..MaxTableRows}
                     \cup {ExampleTable}
    /\ tableOut = <<>>
    /\ InlineIdle /\ SceneIdle /\ RunIdle /\ ParseIdle

CallRenderTable ==
    /\ pc = "renderTable"
    /\ tableOut' = renderTableRows(tableLines)
    /\ pc' = "returned"
    /\ UNCHANGED <<tableLines, notTable>>

NextTable == CallRenderTable

SpecTable == InitTable /\ [][NextTable]_vars

\* What the table renderer is specified to emit: the rows that are not
\* separator rows, the first of them as header (th), the others as body (td)
NonSeparatorRows(lines) ==
    SelectSeq([k \in 1..Len(lines) |-> TableCells(lines[k])],
              LAMBDA cells : ~IsSeparatorRow(cells))

HeaderThenBody(lines) ==
    LET kept == NonSeparatorRows(lines)
    IN  [k \in 1..Len(kept) |->
            [tag |-> IF k = 1 THEN "th" ELSE "td", cells |-> kept[k]]]

\* C3: renderTable never emits a separator row, renders the first row that
\* remains after discarding separator rows as the header row and every later
\* remaining row as a body row, in order, also when the first raw row is a
\* separator row.
C3_FirstRemainingRowIsHeader ==
    pc = "returned" => tableOut = HeaderThenBody(tableLines)

(***************************************************************************)
(* String.prototype.localeCompare and Array.prototype.sort                 *)
(***************************************************************************)
\* The characters of the dates and file names of the model in collation
\* order (space, punctuation, digits, letters); letters compare by their
\* lower-case form, no two names of the model differ by case only
CollationOrder ==
    <<" ", "-", ".", "0", "1", "2", "3", "4", "5", "6", "7", "8", "9",
      "a", "b", "c", "d", "e", "f", "g", "h", "m">>

\* String.prototype.toLowerCase on one character
UpperCase ==
    <<"A", "B", "C", "D", "E", "F", "G", "H", "I", "J", "K", "L", "M",
      "N", "O", "P", "Q", "R", "S", "T", "U", "V", "W", "X", "Y", "Z">>
LowerCase ==
    <<"a", "b", "c", "d", "e", "f", "g", "h", "i", "j", "k", "l", "m",
      "n", "o", "p", "q", "r", "s", "t", "u", "v", "w", "x", "y", "z">>
Lower(c) ==
    IF \E i \in 1..Len(UpperCase) : UpperCase[i] = c
    THEN LowerCase[CHOOSE i \in 1..Len(UpperCase) : UpperCase[i] = c]
    ELSE c

CharRank(c) == CHOOSE i \in 1..Len(CollationOrder) : CollationOrder[i] = Lower(c)

\* a.localeCompare(b): negative, zero or positive
RECURSIVE localeCompare(_, _)
localeCompare(a, b) ==
    IF a = b THEN 0
    ELSE IF a = <<>> THEN -1
    ELSE IF b = <<>> THEN 1
    ELSE IF CharRank(Head(a)) < CharRank(Head(b)) THEN -1
    ELSE IF CharRank(Head(a)) > CharRank(Head(b)) THEN 1
    ELSE localeCompare(Tail(a), Tail(b))

\* seq.sort(Cmp): the sort is stable, elements that compare equal keep their order
StableSort(seq, Cmp(_, _)) ==
    LET n == Len(seq)
        pos(i) == 1 + Cardinality({j \in 1..n :
                         \/ Cmp(seq[j], seq[i]) < 0
                         \/ Cmp(seq[j], seq[i]) = 0 /\ j < i})
    IN  [k \in 1..n |-> seq[CHOOSE i \in 1..n : pos(i) = k]]

(***************************************************************************)
(* build-dialogue.mjs, main: the assembly of the page                      *)
(***************************************************************************)
KeyTitle == <<"t", "i", "t", "l", "e">>
KeySubtitle == <<"s", "u", "b", "t", "i", "t", "l", "e">>
KeyDate == <<"d", "a", "t", "e">>
\* The default title, two characters (U+7121 U+984C)
UNTITLED == <<"U7121", "U984C">>
\* The speaker names speakerClass knows
WADDY == <<"U30EF", "U30C7", "U30A3", "U30FC">>
HINA == <<"U3072", "U306A">>

speakerClass(name) ==
    IF name = WADDY THEN "waddy" ELSE IF name = HINA THEN "hina" ELSE "other"

\* A piece of the page: fixed markup, or a fragment that renders the source
\* text src as html
Markup(tok) == [kind |-> "markup", src |-> <<>>, html |-> <<tok>>]
Frag(kind, src, html) == [kind |-> kind, src |-> src, html |-> html]

\* The text of a sequence of pieces
PiecesHtml(pieces) == Flatten([k \in 1..Len(pieces) |-> pieces[k].html])

\* renderTable(block.lines) + '\n', cell by cell
TablePieces(lines) ==
    LET rows == renderTableRows(lines)
        RowPieces(row) ==
            <<Markup(TR_OPEN)>>
            \o Flatten([j \in 1..Len(row.cells) |->
                   <<Markup(CellOpen(row.tag)),
                     Frag("cell", row.cells[j], renderInline(row.cells[j])),
                     Markup(CellClose(row.tag))>>])
            \o <<Markup(TR_CLOSE)>>
    IN  <<Markup(TABLE_OPEN)>>
        \o Flatten([k \in 1..Len(rows) |-> RowPieces(rows[k])])
        \o <<Markup(TABLE_CLOSE), Markup(LF)>>

\* The body of the loop over section.blocks
BlockPieces(block) ==
    IF block.type = "table" THEN TablePieces(block.lines)
    ELSE IF block.type = "image"
    THEN <<Markup("<div style=\"text-align:center;margin:16px 0;\">"),
           Frag("image", block.raw, renderInline(block.raw)),
           Markup("</div>\n")>>
    ELSE IF block.type = "quote"
    THEN <<Markup("<blockquote style=\"...\">"),
           Frag("quote", block.text, renderInline(block.text)),
           Markup("</blockquote>\n")>>
    ELSE <<Markup("<div class=\"talk-" \o speakerClass(block.speaker)
                  \o "\"><span class=\"talk-name\">"),
           Frag("speaker", block.speaker, escapeHtml(block.speaker)),
           Markup("</span>:")>>
         \o Flatten([k \in 1..Len(block.paragraphs) |->
                (IF k > 1 THEN <<Markup("<br>\n")>> ELSE <<>>)
                \o <<Frag("speech", block.paragraphs[k],
                          escapeHtml(block.paragraphs[k]))>>])
         \o <<Markup("</div>\n")>>

\* The body of the loop over sections
SectionPieces(sec) ==
    <<Markup("\n<div class=\"section-divider\">- "),
      Frag("section", sec.title, escapeHtml(sec.title)),
      Markup(" -</div>\n")>>
    \o Flatten([k \in 1..Len(sec.blocks) |-> BlockPieces(sec.blocks[k])])

\* The date footer: `<div class="dialogue-date">${meta.date} ...</div>`
DatePieces(meta) ==
    IF MetaOr(meta, KeyDate, <<>>) # <<>>
    THEN <<Markup("<div class=\"dialogue-date\">"),
           Frag("date", meta[KeyDate], meta[KeyDate]),
           Markup(" (recorded)</div>\n")>>
    ELSE <<>>

\* The body of the loop over dialogues, i the (0-based) index of d
DialoguePieces(d, i) ==
    (IF i > 0 THEN <<Markup("\n<div class=\"dialogue-separator\"></div>\n")>> ELSE <<>>)
    \o <<Markup("\n<div class=\"dialogue-header\">"),
         Markup("<h2 class=\"dialogue-title\">"),
         Frag("title", MetaOr(d.meta, KeyTitle, UNTITLED),
              escapeHtml(MetaOr(d.meta, KeyTitle, UNTITLED))),
         Markup("</h2>")>>
    \o (IF MetaOr(d.meta, KeySubtitle, <<>>) # <<>>
        THEN <<Markup("<p class=\"dialogue-subtitle\">"),
               Frag("subtitle", d.meta[KeySubtitle], escapeHtml(d.meta[KeySubtitle])),
               Markup("</p>")>>
        ELSE <<>>)
    \o <<Markup("</div>\n")>>
    \o Flatten([k \in 1..Len(d.sections) |-> SectionPieces(d.sections[k])])
    \o DatePieces(d.meta)

\* The comparator with its operands exchanged: ascending dates
DialogueOrderAscending(a, b) ==
    localeCompare(MetaOr(a.meta, KeyDate, <<>>), MetaOr(b.meta, KeyDate, <<>>))

\* (a, b) => (b.meta.date || "").localeCompare(a.meta.date || "")
DialogueOrder(a, b) ==
    localeCompare(MetaOr(b.meta, KeyDate, <<>>), MetaOr(a.meta, KeyDate, <<>>))

\* The pieces of every document, each with the file it comes from
AllPieces(ds) ==
    Flatten([i \in 1..Len(ds) |->
        LET ps == DialoguePieces(ds[i], i - 1)
        IN  [k \in 1..Len(ps) |->
                [file |-> ds[i].file, kind |-> ps[k].kind,
                 src |-> ps[k].src, html |-> ps[k].html]]])

\* The page template around contentHtml
PageHtml(content) == <<"<!doctype html>...<div class=\"dialogue-body\">\n">>
                     \o content \o <<"\n</div>...</html>\n">>

(***************************************************************************)
(* build-dialogue.mjs, main: the steps of a run                            *)
(***************************************************************************)
MD == <<".", "m", "d">>

\* (await readdir(DIALOGUE_DIR)).filter((f) => f.endsWith(".md"))
MdNames(dir) ==
    LET names == [k \in 1..Len(dir) |-> dir[k].name]
    IN  SelectSeq(names, LAMBDA n : EndsWith(n, MD))

\* readFile(join(DIALOGUE_DIR, file), "utf-8")
FileText(name) ==
    dialogueDir[CHOOSE k \in 1..Len(dialogueDir) : dialogueDir[k].name = name].raw

DlgReadDir ==
    /\ script = "build-dialogue" /\ pc = "readdir"
    /\ files' = MdNames(dialogueDir)
    /\ IF files' = <<>>
       THEN warned' = TRUE /\ pc' = "done" /\ exitCode' = 0
       ELSE warned' = warned /\ pc' = "readFile" /\ exitCode' = exitCode
    /\ UNCHANGED <<fsVars, script, idx, raw, fm, dialogues, contentHtml, emitted, vidVars, diaryVars, notRun>>

DlgReadFile ==
    /\ script = "build-dialogue" /\ pc = "readFile"
    /\ raw' = FileText(files[idx + 1])
    /\ fm' = parseFrontmatter(raw')
    /\ dialogues' = Append(dialogues,
           [meta |-> fm'.meta, sections |-> parseDialogue(fm'.body),
            file |-> files[idx + 1]])
    /\ IF idx + 1 < Len(files)
       THEN idx' = idx + 1 /\ pc' = "readFile"
       ELSE idx' = 0 /\ pc' = "assemble"
    /\ UNCHANGED <<fsVars, script, files, contentHtml, emitted, warned, exitCode,
                   vidVars, diaryVars, notRun>>

DlgAssemble ==
    /\ script = "build-dialogue" /\ pc = "assemble"
    /\ dialogues' = StableSort(dialogues, DialogueOrder)
    /\ emitted' = AllPieces(dialogues')
    /\ contentHtml' = PiecesHtml(emitted')
    /\ pc' = "writeFile"
    /\ UNCHANGED <<fsVars, script, files, idx, raw, fm, warned, exitCode, vidVars, diaryVars, notRun>>

DlgWriteFile ==
    /\ script = "build-dialogue" /\ pc = "writeFile"
    /\ outFile' = [exists |-> TRUE, data |-> PageHtml(contentHtml)]
    /\ pc' = "done" /\ exitCode' = 0
    /\ UNCHANGED <<dialogueDir, outDir, fs0, script, files, idx, raw, fm, dialogues,
                   contentHtml, emitted, warned, vidVars, diaryVars, notRun>>

\* The awaited calls: each may reject, and main().catch exits with status 1.
\* A rejected call leaves the file system as it was (writeFile replaces the
\* whole file or nothing).
AwaitPoints ==
    {"mkdir", "readdirOut", "unlink", "readdir", "readFile", "parse", "writeFile"}

\* main().catch: console.error, then process.exit(1)
ExitOfCatch == 1

\* A handler that only logged the error: the process would end with status 0
ThrowsSilent ==
    /\ pc \in AwaitPoints
    /\ pc' = "failed" /\ exitCode' = 0
    /\ UNCHANGED <<fsVars, script, files, idx, raw, fm, dialogues, contentHtml,
                   emitted, warned, vidVars, diaryVars, notRun>>

Throws ==
    /\ pc \in AwaitPoints
    /\ pc' = "failed" /\ exitCode' = ExitOfCatch
    /\ UNCHANGED <<fsVars, script, files, idx, raw, fm, dialogues, contentHtml,
                   emitted, warned, vidVars, diaryVars, notRun>>

(***************************************************************************)
(* build-video-scripts.mjs: parseDialogue                                  *)
(***************************************************************************)
\* flushSpeech: the sections after it (currentSpeech becomes null)
FlushSpeech(st) == FlushBlock(st)

\* One iteration of the loop of the exporter's parseDialogue.  st.sections
\* are the sections so far (currentSection is the last one) and st.block is
\* currentSpeech.
VideoDialogueLine(st, line) ==
    LET h == HeadingMatch(line)
        sp == SpeakerMatch(line)
        trimmed == Trim(line)
        flushed == FlushSpeech(st)
    IN  IF h.ok
        THEN [sections |-> Append(flushed, [title |-> h.title, blocks |-> <<>>]),
              block |-> NoBlock]
        ELSE IF sp.ok
        THEN [sections |-> flushed,
              block |-> [type |-> "speech", speaker |-> sp.speaker,
                         paragraphs |-> IF Trim(sp.text) # <<>>
                                        THEN <<Trim(sp.text)>> ELSE <<>>]]
        ELSE IF st.sections = <<>> THEN st
        ELSE IF trimmed = <<>> THEN st
        ELSE IF IsImageLine(trimmed)
        THEN [sections |-> PushBlock(flushed, [type |-> "image", raw |-> trimmed]),
              block |-> NoBlock]
        ELSE IF Head(trimmed) = "|"
        THEN [sections |-> PushTableLine(flushed, trimmed), block |-> NoBlock]
        ELSE IF Head(trimmed) = ">"
        THEN [sections |-> PushBlock(flushed,
                               [type |-> "quote", text |-> QuoteText(trimmed)]),
              block |-> NoBlock]
        ELSE IF st.block # NoBlock
        THEN [st EXCEPT !.block.paragraphs = Append(@, trimmed)]
        ELSE [sections |-> PushBlock(st.sections, [type |-> "text", text |-> trimmed]),
              block |-> NoBlock]

RECURSIVE VideoDialogueLines(_, _)
VideoDialogueLines(st, lines) ==
    IF lines = <<>> THEN st
    ELSE VideoDialogueLines(VideoDialogueLine(st, Head(lines)), Tail(lines))

parseDialogueVideo(body) ==
    FlushSpeech(VideoDialogueLines([sections |-> <<>>, block |-> NoBlock],
                                   SplitLines(body)))

(***************************************************************************)
(* build-video-scripts.mjs: stripMarkdown, tableToSpeech, imageToSpeech    *)
(***************************************************************************)
\* The labels of the narration, one stand-in per character
IMAGE_LABEL == <<"U753B", "U50CF">>
IMAGE_MEMO == <<"U753B", "U50CF", "U30E1", "U30E2">>
TABLE_LABEL == <<"U8868", ":", " ">>
QUOTE_LABEL == <<"U5F15", "U7528", ":", " ">>
ITEM_LABEL == <<"U9805", "U76EE">>
COLUMN_LABEL == <<"U5217">>
IDEO_COMMA == <<"U3001">>
FULL_SEMICOLON == <<"UFF1B">>
\* The grave accent (U+0060), which delimits inline code
BACKTICK == "U0060"

\* The match at index p of one of the patterns of stripMarkdown:
\* [stop, out], stop the index of its last character (0: no match at p) and
\* out its replacement
StripMatch(kind, s, p) ==
    LET none == [stop |-> 0, out |-> <<>>]
    IN  CASE kind = "image" ->
               \* /!\[([^\]]*)\]\(([^)]+)\)/g, alt ? label(alt) : label(src)
               LET m == ImageMatchAt(s, p)
                   alt == SubSeq(s, p + 2, m[1] - 1)
                   src == SubSeq(s, m[1] + 2, m[2] - 1)
               IN  IF m[1] = 0 THEN none
                   ELSE [stop |-> m[2],
                         out |-> IMAGE_LABEL \o <<"(">>
                                 \o (IF alt # <<>> THEN alt ELSE src) \o <<")">>]
          [] kind = "link" ->
               \* /\[([^\]]+)\]\(([^)]+)\)/g, "$1"
               LET r == IF s[p] = "[" THEN FirstIndex(p + 1, Len(s), LAMBDA i : s[i] = "]")
                        ELSE 0
                   u == IF r >= p + 2 /\ r + 1 <= Len(s) /\ s[r + 1] = "("
                        THEN FirstIndex(r + 2, Len(s), LAMBDA i : s[i] = ")")
                        ELSE 0
               IN  IF u = 0 \/ u < r + 3 THEN none
                   ELSE [stop |-> u, out |-> SubSeq(s, p + 1, r - 1)]
          [] kind = "bold" ->
               \* /\*\*(.+?)\*\*/g, "$1"
               LET q == IF s[p] = "*" /\ p + 1 <= Len(s) /\ s[p + 1] = "*"
                        THEN FirstIndex(p + 3, Len(s) - 1,
                                        LAMBDA i : s[i] = "*" /\ s[i + 1] = "*")
                        ELSE 0
               IN  IF q = 0 THEN none
                   ELSE [stop |-> q + 1, out |-> SubSeq(s, p + 2, q - 1)]
          [] kind = "italic" ->
               \* /\*(.+?)\*/g, "$1"
               LET q == IF s[p] = "*" THEN FirstIndex(p + 2, Len(s), LAMBDA i : s[i] = "*")
                        ELSE 0
               IN  IF q = 0 THEN none ELSE [stop |-> q, out |-> SubSeq(s, p + 1, q - 1)]
          [] kind = "code" ->
               \* a grave accent, one or more other characters, a grave accent: "$1"
               LET q == IF s[p] = BACKTICK
                        THEN FirstIndex(p + 1, Len(s), LAMBDA i : s[i] = BACKTICK)
                        ELSE 0
               IN  IF q < p + 2 THEN none ELSE [stop |-> q, out |-> SubSeq(s, p + 1, q - 1)]
          [] kind = "space" ->
               \* /\s+/g, " "
               LET k == RunLength(From(s, p), IsSpace)
               IN  IF k = 0 THEN none ELSE [stop |-> p + k - 1, out |-> <<" ">>]

\* s.replace(pattern, replacement) with the g flag, scanning from index p
RECURSIVE StripPass(_, _, _)
StripPass(kind, s, p) ==
    IF p > Len(s) THEN <<>>
    ELSE LET m == StripMatch(kind, s, p)
         IN  IF m.stop # 0 THEN m.out \o StripPass(kind, s, m.stop + 1)
             ELSE <<s[p]>> \o StripPass(kind, s, p + 1)

\* The chain of .replace calls, one pass per pattern, in the order of kinds
RECURSIVE StripPasses(_, _)
StripPasses(kinds, s) ==
    IF kinds = <<>> THEN s
    ELSE StripPasses(Tail(kinds), StripPass(Head(kinds), s, 1))

stripMarkdown(text) ==
    Trim(StripPasses(<<"image", "link", "bold", "italic", "code", "space">>, text))

\* String(n) for n >= 0
Digit(d) == <<"0", "1", "2", "3", "4", "5", "6", "7", "8", "9">>[d + 1]
RECURSIVE DecimalString(_)
DecimalString(n) ==
    IF n < 10 THEN <<Digit(n)>> ELSE DecimalString(n \div 10) \o <<Digit(n % 10)>>

\* The rows tableToSpeech keeps
SpeechRows(lines) ==
    SelectSeq([k \in 1..Len(lines) |-> TableCells(lines[k])],
              LAMBDA cells : Len(cells) # 0 /\ ~IsSeparatorRow(cells))

tableToSpeech(lines) ==
    LET rows == SpeechRows(lines)
        \* cell || (idx === 0 ? label : label + (idx + 1))
        header == [j \in 1..Len(rows[1]) |->
                      IF rows[1][j] # <<>> THEN rows[1][j]
                      ELSE IF j = 1 THEN ITEM_LABEL
                      ELSE COLUMN_LABEL \o DecimalString(j)]
        \* (h + ": " + (row[idx] || "")).trim()
        Pair(row, j) ==
            Trim(header[j] \o <<":", " ">> \o (IF j <= Len(row) THEN row[j] ELSE <<>>))
        RowText(row) == Join([j \in 1..Len(header) |-> Pair(row, j)], IDEO_COMMA)
        summarized == Join([k \in 1..(Len(rows) - 1) |-> RowText(rows[k + 1])],
                           FULL_SEMICOLON)
    IN  IF Len(rows) = 0 THEN <<>>
        ELSE IF Len(rows) = 1 THEN TABLE_LABEL \o Join(rows[1], <<" ", "/", " ">>)
        ELSE IF summarized # <<>> THEN TABLE_LABEL \o summarized
        ELSE TABLE_LABEL \o Join(header, <<" ", "/", " ">>)

imageToSpeech(rawImage) ==
    \* rawImage.match(/^!\[([^\]]*)\]\(([^)]+)\)$/)
    LET m == IF rawImage = <<>> THEN <<0, 0>> ELSE ImageMatchAt(rawImage, 1)
        alt == Trim(SubSeq(rawImage, 3, m[1] - 1))
        src == Trim(SubSeq(rawImage, m[1] + 2, m[2] - 1))
    IN  IF m[1] = 0 \/ m[2] # Len(rawImage) THEN IMAGE_MEMO
        ELSE IMAGE_MEMO \o <<":", " ">> \o (IF alt # <<>> THEN alt ELSE src)

(***************************************************************************)
(* build-video-scripts.mjs: speakerToChannel, toSceneLines                 *)
(***************************************************************************)
\* speaker.replace(/\s+/g, "")
RemoveSpaces(s) == SelectSeq(s, LAMBDA c : ~IsSpace(c))

\* speakerToChannel that tests the name as written
speakerToChannelRaw(speaker) ==
    IF StartsWith(speaker, HINA) THEN "right" ELSE "left"

speakerToChannel(speaker) ==
    IF StartsWith(RemoveSpaces(speaker), HINA) THEN "right" ELSE "left"

FACE_NEUTRAL == "[face:neutral]"
FACE_JOY == "[face:joy]"

\* A line of a scene; blk is the (1-based) index of the block of the section
\* it was produced from, 0 for the line of the section title
SceneLine(say, speaker, pauseSec, blk) ==
    [say |-> say, speaker |-> speaker, pauseSec |-> pauseSec, blk |-> blk]

\* The text a block hands to stripMarkdown
BlockSource(block) ==
    CASE block.type = "speech" -> Join(block.paragraphs, <<" ">>)
      [] block.type = "quote" -> block.text
      [] block.type = "image" -> imageToSpeech(block.raw)
      [] block.type = "table" -> tableToSpeech(block.lines)
      [] block.type = "text" -> block.text
      [] OTHER -> <<>>

\* The branch of the loop for the block, text being stripMarkdown of its
\* source: no line when the text is empty (an image line is pushed without
\* that test), the channel of the speaker for a speech block and "left" for
\* the others, the quote label before the text of a quote
BlockLine(block, blk, text) ==
    IF block.type \notin {"speech", "quote", "image", "table", "text"} THEN <<>>
    ELSE IF text = <<>> /\ block.type # "image" THEN <<>>
    ELSE <<SceneLine(IF block.type = "quote" THEN QUOTE_LABEL \o text ELSE text,
                     IF block.type = "speech" THEN speakerToChannel(block.speaker)
                     ELSE "left",
                     "0.15", blk)>>

\* The line of the section title, text being stripMarkdown(section.title)
TitleLine(text) == SceneLine(<<FACE_NEUTRAL>> \o text, "left", "0.2", 0)

\* The sources of the lines of a section: its title (index 0) and its blocks
SceneSource(sec, k) == IF k = 0 THEN sec.title ELSE BlockSource(sec.blocks[k])

\* The lines made from source k of a section, text being its stripMarkdown
SceneLinesAt(sec, k, text) ==
    IF k = 0 THEN <<TitleLine(text)>> ELSE BlockLine(sec.blocks[k], k, text)

toSceneLines(sec) ==
    Flatten([n \in 1..(Len(sec.blocks) + 1) |->
                SceneLinesAt(sec, n - 1, stripMarkdown(SceneSource(sec, n - 1)))])

(***************************************************************************)
(* build-video-scripts.mjs: stableSlug, sanitizeFileName, renderYaml       *)
(***************************************************************************)
\* s.replace(/[class]+/g, rep): every maximal run of characters of the
\* class P becomes rep
ReplaceRuns(s, P(_), rep) ==
    Flatten([i \in 1..Len(s) |->
                IF ~P(s[i]) THEN <<s[i]>>
                ELSE IF i = 1 \/ ~P(s[i - 1]) THEN rep
                ELSE <<>>])

\* basename(fileName, ".md") of a name without directory part
BaseName(fileName) ==
    IF EndsWith(fileName, MD) THEN SubSeq(fileName, 1, Len(fileName) - Len(MD))
    ELSE fileName

\* The names of the model are ASCII: normalize("NFKD") leaves them as they are
stableSlug(fileName) ==
    LET base == BaseName(fileName)
        dashed == ReplaceRuns(base, LAMBDA c : ~IsWord(c) /\ c # "-", <<"-">>)
        single == ReplaceRuns(dashed, LAMBDA c : c = "-", <<"-">>)
        \* .replace(/^-|-$/g, "")
        noHead == IF single # <<>> /\ Head(single) = "-" THEN Tail(single) ELSE single
        noTail == IF noHead # <<>> /\ noHead[Len(noHead)] = "-"
                  THEN SubSeq(noHead, 1, Len(noHead) - 1) ELSE noHead
        ascii == [i \in 1..Len(noTail) |-> Lower(noTail[i])]
    IN  IF ascii # <<>> THEN ascii ELSE <<"e", "p", "i", "s", "o", "d", "e">>

\* The characters sanitizeFileName replaces by a hyphen
ReservedChars == {"\\", "/", ":", "*", "?", QUOT, "<", ">", "|"}

sanitizeFileName(name) ==
    LET hyphened == [i \in 1..Len(name) |->
                        IF name[i] \in ReservedChars THEN "-" ELSE name[i]]
        spaced == Trim(ReplaceRuns(hyphened, IsSpace, <<" ">>))
        \* .replace(/[. ]+$/g, "")
        keep == IF \E i \in 1..Len(spaced) : spaced[i] \notin {".", " "}
                THEN CHOOSE i \in 1..Len(spaced) :
                        /\ spaced[i] \notin {".", " "}
                        /\ \A j \in (i + 1)..Len(spaced) : spaced[j] \in {".", " "}
                ELSE 0
    IN  SubSeq(spaced, 1, keep)

\* String(n).padStart(2, "0")
Pad2(n) ==
    IF Len(DecimalString(n)) < 2 THEN <<"0">> \o DecimalString(n) ELSE DecimalString(n)

\* yamlString: JSON.stringify(value ?? "")
yamlString(value) ==
    <<QUOT>>
    \o Flatten([i \in 1..Len(value) |->
                   IF value[i] = QUOT THEN <<"\\", QUOT>>
                   ELSE IF value[i] = "\\" THEN <<"\\", "\\">>
                   ELSE IF value[i] = LF THEN <<"\\", "n">>
                   ELSE IF value[i] = CR THEN <<"\\", "r">>
                   ELSE IF value[i] = TAB THEN <<"\\", "t">>
                   ELSE <<value[i]>>])
    \o <<QUOT>>

\* The fixed head of every script, from version: to scenes:
YAML_HEAD == "version: \"1\"\nvideo:\n...\nscenes:\n"

YamlLine(line) ==
    <<"      - say: ">> \o yamlString(line.say) \o <<LF>>
    \o <<"        speaker: ", line.speaker, LF>>
    \o <<"        pauseSec: ", line.pauseSec, LF>>

YamlScene(scene) ==
    <<"  - id: ">> \o scene.id \o <<LF, "    lines:\n">>
    \o Flatten([k \in 1..Len(scene.lines) |-> YamlLine(scene.lines[k])])

renderYaml(meta, sceneList) ==
    <<YAML_HEAD>> \o Flatten([k \in 1..Len(sceneList) |-> YamlScene(sceneList[k])])

(***************************************************************************)
(* build-video-scripts.mjs, main                                           *)
(***************************************************************************)
YAML_EXT == <<".", "y", "a", "m", "l">>
FACE_JOY_TITLE == <<FACE_JOY>>
RECORDED_ON == <<FACE_NEUTRAL, "U53CE", "U9332", "U65E5", " ">>
EPISODE == <<"e", "p", "i", "s", "o", "d", "e">>

\* episodes.sort((a, b) => ...): by date, then by file name
EpisodeOrder(a, b) ==
    LET da == MetaOr(a.meta, KeyDate, <<>>)
        db == MetaOr(b.meta, KeyDate, <<>>)
    IN  IF da # db THEN localeCompare(da, db) ELSE localeCompare(a.file, b.file)

\* The lines of the intro scene of an episode
IntroLines(ep) ==
    <<SceneLine(FACE_JOY_TITLE \o stripMarkdown(MetaOr(ep.meta, KeyTitle, UNTITLED)),
                "left", "0.25", 0)>>
    \o (IF MetaOr(ep.meta, KeySubtitle, <<>>) # <<>>
        THEN <<SceneLine(<<FACE_NEUTRAL>> \o stripMarkdown(ep.meta[KeySubtitle]),
                         "right", "0.2", 0)>>
        ELSE <<>>)
    \o (IF MetaOr(ep.meta, KeyDate, <<>>) # <<>>
        THEN <<SceneLine(RECORDED_ON \o ep.meta[KeyDate], "left", "0.2", 0)>>
        ELSE <<>>)

\* The scenes with the sections numbered from their index, scene-00 first
ScenesFromZero(ep) ==
    <<[id |-> <<"i", "n", "t", "r", "o">>, lines |-> IntroLines(ep)]>>
    \o [k \in 1..Len(ep.sections) |->
           [id |-> <<"s", "c", "e", "n", "e", "-">> \o Pad2(k - 1),
            lines |-> toSceneLines(ep.sections[k])]]

\* scenes of the episode: the intro, then one scene per section
Scenes(ep) ==
    <<[id |-> <<"i", "n", "t", "r", "o">>, lines |-> IntroLines(ep)]>>
    \o [k \in 1..Len(ep.sections) |->
           [id |-> <<"s", "c", "e", "n", "e", "-">> \o Pad2(k),
            lines |-> toSceneLines(ep.sections[k])]]

\* sanitizeFileName(ep.meta.title || stableSlug(ep.file)) || "episode"
TitlePart(ep) ==
    LET part == sanitizeFileName(MetaOr(ep.meta, KeyTitle, stableSlug(ep.file)))
    IN  IF part # <<>> THEN part ELSE EPISODE

\* The name of the script without the sequence number of the episode
OutFileNameUnnumbered(i, ep) ==
    EPISODE \o <<"-">> \o TitlePart(ep) \o YAML_EXT

\* outFile of the episode at index i (0-based) of the sorted episodes
OutFileName(i, ep) ==
    EPISODE \o <<"-">> \o Pad2(i + 1) \o <<"-">> \o TitlePart(ep) \o YAML_EXT

\* The orders in which readdir may list the names of a directory
Orders(names) ==
    {l \in [1..Cardinality(names) -> names] :
        \A i, j \in 1..Cardinality(names) : i # j => l[i] # l[j]}

\* The index (0-based) of the first .yaml name at or after index i, or
\* Len(names) when there is none
NextYaml(names, i) ==
    IF \E k \in i..(Len(names) - 1) : EndsWith(names[k + 1], YAML_EXT)
    THEN CHOOSE k \in i..(Len(names) - 1) :
            /\ EndsWith(names[k + 1], YAML_EXT)
            /\ \A j \in i..(k - 1) : ~EndsWith(names[j + 1], YAML_EXT)
    ELSE Len(names)

VidMkdir ==
    /\ script = "build-video-scripts" /\ pc = "mkdir"
    /\ outDir' = IF outDir.exists THEN outDir ELSE [exists |-> TRUE, files |-> NoDir.files]
    /\ pc' = "readdirOut"
    /\ UNCHANGED <<dialogueDir, outFile, fs0, mainVars, vidVars, diaryVars, notRun>>

VidReadOutDir ==
    /\ script = "build-video-scripts" /\ pc = "readdirOut"
    /\ existing' \in Orders(DOMAIN outDir.files)
    /\ IF NextYaml(existing', 0) < Len(existing')
       THEN idx' = NextYaml(existing', 0) /\ pc' = "unlink"
       ELSE idx' = 0 /\ pc' = "readdir"
    /\ UNCHANGED <<fsVars, script, files, raw, fm, dialogues, contentHtml, emitted,
                   warned, exitCode, episodes, generated, scenes, diaryVars, notRun>>

VidUnlink ==
    /\ script = "build-video-scripts" /\ pc = "unlink"
    /\ outDir' = [outDir EXCEPT !.files =
                     [n \in (DOMAIN outDir.files) \ {existing[idx + 1]} |-> outDir.files[n]]]
    /\ IF NextYaml(existing, idx + 1) < Len(existing)
       THEN idx' = NextYaml(existing, idx + 1) /\ pc' = "unlink"
       ELSE idx' = 0 /\ pc' = "readdir"
    /\ UNCHANGED <<dialogueDir, outFile, fs0, script, files, raw, fm, dialogues,
                   contentHtml, emitted, warned, exitCode, vidVars, diaryVars, notRun>>

VidReadDir ==
    /\ script = "build-video-scripts" /\ pc = "readdir"
    /\ files' = MdNames(dialogueDir)
    /\ IF files' = <<>>
       THEN warned' = TRUE /\ pc' = "done" /\ exitCode' = 0
       ELSE warned' = warned /\ pc' = "readFile" /\ exitCode' = exitCode
    /\ UNCHANGED <<fsVars, script, idx, raw, fm, dialogues, contentHtml, emitted,
                   vidVars, diaryVars, notRun>>

VidReadFile ==
    /\ script = "build-video-scripts" /\ pc = "readFile"
    /\ raw' = FileText(files[idx + 1])
    /\ fm' = parseFrontmatter(raw')
    /\ episodes' = Append(episodes,
           [file |-> files[idx + 1], meta |-> fm'.meta,
            sections |-> parseDialogueVideo(fm'.body)])
    /\ IF idx + 1 < Len(files)
       THEN idx' = idx + 1 /\ pc' = "readFile"
       ELSE idx' = 0 /\ pc' = "sort"
    /\ UNCHANGED <<fsVars, script, files, dialogues, contentHtml, emitted, warned,
                   exitCode, existing, generated, scenes, diaryVars, notRun>>

VidSort ==
    /\ script = "build-video-scripts" /\ pc = "sort"
    /\ episodes' = StableSort(episodes, EpisodeOrder)
    /\ pc' = "writeFile"
    /\ UNCHANGED <<fsVars, mainVars, existing, generated, scenes, diaryVars, notRun>>

VidWriteFile ==
    /\ script = "build-video-scripts" /\ pc = "writeFile"
    /\ scenes' = Scenes(episodes[idx + 1])
    /\ LET ep == episodes[idx + 1]
           name == OutFileName(idx, ep)
           yaml == renderYaml(ep.meta, scenes')
       IN  /\ outDir' = [outDir EXCEPT !.files =
                            [n \in (DOMAIN outDir.files) \cup {name} |->
                                IF n = name THEN yaml ELSE outDir.files[n]]]
           /\ generated' = Append(generated, name)
    /\ IF idx + 1 < Len(episodes)
       THEN idx' = idx + 1 /\ pc' = "writeFile" /\ exitCode' = exitCode
       ELSE idx' = idx + 1 /\ pc' = "done" /\ exitCode' = 0
    /\ UNCHANGED <<dialogueDir, outFile, fs0, script, files, raw, fm, dialogues,
                   contentHtml, emitted, warned, existing, episodes, diaryVars, notRun>>

(***************************************************************************)
(* build-diary.mjs (both scripts of the file) and build-diary-hina.mjs     *)
(***************************************************************************)
DiaryScripts == {"build-diary", "build-diary-monthly", "build-diary-hina"}

IsDigit(c) == c \in {"0", "1", "2", "3", "4", "5", "6", "7", "8", "9"}

\* parseFilename: base.match(/^(\d{4}-\d{2}-\d{2})_(.+)$/); ok is FALSE for
\* the null it returns.  The month is in the result of the monthly script only;
\* the other two scripts do not look at it.
parseFilename(filename) ==
    LET base == BaseName(filename)
        ok == /\ Len(base) >= 12
              /\ \A i \in {1, 2, 3, 4, 6, 7, 9, 10} : IsDigit(base[i])
              /\ base[5] = "-" /\ base[8] = "-" /\ base[11] = "_"
              /\ \A i \in 12..Len(base) : base[i] \notin {LF, CR}
    IN  IF ok
        THEN [ok |-> TRUE, date |-> SubSeq(base, 1, 10), month |-> SubSeq(base, 1, 7),
              title |-> SubSeq(base, 12, Len(base))]
        ELSE [ok |-> FALSE, date |-> <<>>, month |-> <<>>, title |-> <<>>]

\* raw.replace(/^\uFEFF?/, "").replace(/^#[^\r\n]+[\r\n]+/, "").trim()
DiaryBody(rawText) ==
    LET s == StripBom(rawText)
        k == IF s # <<>> /\ Head(s) = "#"
             THEN RunLength(Tail(s), LAMBDA c : c \notin {LF, CR}) ELSE 0
        n == RunLength(From(s, k + 2), LAMBDA c : c \in {LF, CR})
    IN  IF k >= 1 /\ n >= 1 THEN Trim(From(s, k + n + 2)) ELSE Trim(s)

\* marked.parse(body): the HTML the library makes of the Markdown text
Marked(body) == <<"<marked>">> \o body \o <<"</marked>">>

\* entries.push({ ...meta, html })
Entry(scriptName, meta, html) ==
    IF scriptName = "build-diary-monthly"
    THEN [date |-> meta.date, month |-> meta.month, title |-> meta.title, html |-> html]
    ELSE [date |-> meta.date, title |-> meta.title, html |-> html]

\* The sort the other way round, oldest first
DiaryOrderAscending(a, b) == localeCompare(a.date, b.date)

\* entries.sort((a, b) => b.date.localeCompare(a.date))
DiaryOrder(a, b) == localeCompare(b.date, a.date)

\* WEEKDAYS[d.getDay()]: the name of the day of the week of the date in the
\* time zone of the machine, kept as one symbol
DAY_OF_WEEK == "WEEKDAYS[d.getDay()]"

\* formatDate: dateStr, then the day of the week in full-width parentheses
formatDate(dateStr) == dateStr \o <<"UFF08", DAY_OF_WEEK, "UFF09">>

DigitValue(c) == CHOOSE d \in 0..9 : Digit(d) = c

\* formatMonthLabel: y, the year sign, parseInt(m), the month sign
formatMonthLabel(monthKey) ==
    LET parts == SplitChar(monthKey, "-")
    IN  parts[1] \o <<"U5E74">>
        \o DecimalString(10 * DigitValue(parts[2][1]) + DigitValue(parts[2][2]))
        \o <<"U6708">>

\* The <li> of an entry shown in full
renderFullEntry(e) ==
    [date |-> formatDate(e.date), title |-> e.title, html |-> e.html]

\* The <li> of an entry in the list of back numbers
renderTitleOnly(e) == [date |-> e.date, title |-> e.title]

\* The <li> of an entry on the page of build-diary (the date as it is) and on
\* the page of build-diary-hina (the date with the day of the week)
EntryItem(scriptName, e) ==
    [date |-> IF scriptName = "build-diary-hina" THEN formatDate(e.date) ELSE e.date,
     title |-> e.title, html |-> e.html]

DIARY_HTML == <<"d", "i", "a", "r", "y", ".", "h", "t", "m", "l">>
DIARY_HINA_HTML == <<"d", "i", "a", "r", "y", "-", "h", "i", "n", "a", ".", "h", "t", "m", "l">>
HTML_EXT == <<".", "h", "t", "m", "l">>
HERE == <<".", "/">>

\* diary-${m}.html
MonthPageName(m) == <<"d", "i", "a", "r", "y", "-">> \o m \o HTML_EXT

\* OUT_FILE of build-diary and of build-diary-hina
OutPageName(scriptName) ==
    IF scriptName = "build-diary-hina" THEN DIARY_HINA_HTML ELSE DIARY_HTML

\* The page of build-diary and of build-diary-hina: the entries in order
ListPage(scriptName, es) ==
    [kind |-> scriptName, items |-> [k \in 1..Len(es) |-> EntryItem(scriptName, es[k])]]

\* The months of a build that shows an empty newest month when there is no
\* entry
MonthKeysOrEmptyMonth(es) ==
    IF es = <<>> THEN <<<<"2", "0", "2", "4", "-", "0", "1">>>>
    ELSE LET first == SelectSeq([k \in 1..Len(es) |-> k],
                 LAMBDA k : \A j \in 1..(k - 1) : es[j].month # es[k].month)
         IN  [n \in 1..Len(first) |-> es[first[n]].month]

\* [...monthMap.keys()]: the months of the entries in the order in which the
\* loop over the entries met them first
MonthKeys(es) ==
    LET first == SelectSeq([k \in 1..Len(es) |-> k],
                           LAMBDA k : \A j \in 1..(k - 1) : es[j].month # es[k].month)
    IN  [n \in 1..Len(first) |-> es[first[n]].month]

\* monthMap.get(m)
MonthEntries(es, m) == SelectSeq(es, LAMBDA e : e.month = m)

FullEntries(es) == [k \in 1..Len(es) |-> renderFullEntry(es[k])]

\* mainPage: the newest month in full and the back numbers of the others
MainPage(es, ms) ==
    [kind |-> "main",
     heading |-> formatMonthLabel(ms[1]),
     full |-> FullEntries(MonthEntries(es, ms[1])),
     back |-> [n \in 1..(Len(ms) - 1) |->
                 [href |-> HERE \o MonthPageName(ms[n + 1]),
                  label |-> formatMonthLabel(ms[n + 1]),
                  count |-> Len(MonthEntries(es, ms[n + 1])),
                  titles |-> [k \in 1..Len(MonthEntries(es, ms[n + 1])) |->
                                 renderTitleOnly(MonthEntries(es, ms[n + 1])[k])]]]]

\* otherMonthLinks of the page of month m
OtherMonthLinks(ms, m) ==
    LET others == SelectSeq(ms, LAMBDA om : om # m)
    IN  [n \in 1..Len(others) |->
            [href |-> IF others[n] = ms[1] THEN HERE \o DIARY_HTML
                      ELSE HERE \o MonthPageName(others[n]),
             label |-> formatMonthLabel(others[n])]]

\* monthPage of the past month m
MonthPage(es, ms, m) ==
    [kind |-> "month",
     heading |-> formatMonthLabel(m),
     full |-> FullEntries(MonthEntries(es, m)),
     links |-> OtherMonthLinks(ms, m)]

\* readFile(join(DIARY_DIR, file), "utf-8")
DiaryText(name) ==
    diaryDir[CHOOSE k \in 1..Len(diaryDir) : diaryDir[k].name = name].raw

\* The loop if a refused name ended it (break in the place of continue)
NextValidBreak(names, i) ==
    IF i < Len(names) /\ parseFilename(names[i + 1]).ok THEN i ELSE Len(names)

\* The index (0-based) of the first name at or after index i that
\* parseFilename accepts, or Len(names): the loop warns about the names before
\* it and goes on
NextValid(names, i) ==
    IF \E k \in i..(Len(names) - 1) : parseFilename(names[k + 1]).ok
    THEN CHOOSE k \in i..(Len(names) - 1) :
            /\ parseFilename(names[k + 1]).ok
            /\ \A j \in i..(k - 1) : ~parseFilename(names[j + 1]).ok
    ELSE Len(names)

\* site with the page written under the name
WritePage(pages, name, page) ==
    [n \in (DOMAIN pages) \cup {name} |-> IF n = name THEN page ELSE pages[n]]

diaryFrame == <<fsVars, fm, dialogues, contentHtml, emitted, vidVars, notRun>>

DiaryReadDir ==
    /\ script \in DiaryScripts /\ pc = "readdir"
    /\ files' = MdNames(diaryDir)
    /\ idx' = NextValid(files', 0)
    /\ skipped' = SubSeq(files', 1, idx')
    /\ warned' = (idx' > 0)
    /\ pc' = IF idx' < Len(files') THEN "readFile" ELSE "assemble"
    /\ UNCHANGED <<script, raw, exitCode, diaryDir, site, site0, entries, readLog,
                   months, written, diaryFrame>>

DiaryReadFile ==
    /\ script \in DiaryScripts /\ pc = "readFile"
    /\ raw' = DiaryText(files[idx + 1])
    /\ readLog' = readLog \cup {files[idx + 1]}
    /\ pc' = "parse"
    /\ UNCHANGED <<script, files, idx, warned, exitCode, diaryDir, site, site0,
                   entries, skipped, months, written, diaryFrame>>

DiaryParse ==
    /\ script \in DiaryScripts /\ pc = "parse"
    /\ entries' = Append(entries,
           Entry(script, parseFilename(files[idx + 1]), Marked(DiaryBody(raw))))
    /\ idx' = NextValid(files, idx + 1)
    /\ skipped' = skipped \o SubSeq(files, idx + 2, idx')
    /\ warned' = (warned \/ idx' > idx + 1)
    /\ pc' = IF idx' < Len(files) THEN "readFile" ELSE "assemble"
    /\ UNCHANGED <<script, files, raw, exitCode, diaryDir, site, site0, readLog,
                   months, written, diaryFrame>>

\* The sort and, in the monthly script, the grouping; latestEntries.map
\* throws a TypeError when there is no month, and main().catch exits
DiaryAssemble ==
    /\ script \in DiaryScripts /\ pc = "assemble"
    /\ entries' = StableSort(entries, DiaryOrder)
    /\ months' = IF script = "build-diary-monthly" THEN MonthKeys(entries') ELSE <<>>
    /\ idx' = 0
    /\ IF script = "build-diary-monthly" /\ months' = <<>>
       THEN pc' = "failed" /\ exitCode' = ExitOfCatch
       ELSE pc' = "writeFile" /\ exitCode' = exitCode
    /\ UNCHANGED <<script, files, raw, warned, diaryDir, site, site0, skipped,
                   readLog, written, diaryFrame>>

\* The page the next writeFile writes: [name, page]
NextPage ==
    IF script # "build-diary-monthly"
    THEN [name |-> OutPageName(script), page |-> ListPage(script, entries)]
    ELSE IF idx = 0
    THEN [name |-> DIARY_HTML, page |-> MainPage(entries, months)]
    ELSE [name |-> MonthPageName(months[idx + 1]),
          page |-> MonthPage(entries, months, months[idx + 1])]

DiaryWriteFile ==
    /\ script \in DiaryScripts /\ pc = "writeFile"
    /\ site' = WritePage(site, NextPage.name, NextPage.page)
    /\ written' = Append(written, NextPage.name)
    /\ idx' = idx + 1
    /\ IF script = "build-diary-monthly" /\ idx + 1 < Len(months)
       THEN pc' = "writeFile" /\ exitCode' = exitCode
       ELSE pc' = "done" /\ exitCode' = 0
    /\ UNCHANGED <<script, files, raw, warned, diaryDir, site0, entries, skipped,
                   readLog, months, diaryFrame>>

(***************************************************************************)
(* The documents and directories of the model                              *)
(***************************************************************************)
D1 == <<"2", "0", "2", "4", "-", "0", "1", "-", "0", "1">>
D2 == <<"2", "0", "2", "4", "-", "0", "2", "-", "0", "1">>
D3 == <<"2", "0", "2", "4", "-", "0", "3", "-", "0", "1">>

Field(key, val) == key \o <<":", " ">> \o val
Text(ls) == Join(ls, <<LF>>) \o <<LF>>
Doc(fields, body) == Text(<<DELIM>> \o fields \o <<DELIM>> \o body)

DocA == Doc(<<Field(KeyTitle, <<"A">>), Field(KeyDate, D1)>>,
            << <<"#", "#", " ", "S">>,
               <<"*", "*">> \o HINA \o <<"*", "*", ":", " ", "x">>,
               <<"y">> >>)
DocB == Doc(<<Field(KeyTitle, <<"A">>), Field(KeySubtitle, <<"s">>), Field(KeyDate, D3)>>,
            << <<"#", "#", " ", "S">>,
               <<">", " ", "q">>,
               <<"!", "[", "a", "]", "(", "u", ")">>,
               <<"|", "a", "|">>, <<"|", "-", "|">>, <<"|", "1", "|">>,
               <<"*", "*", "w", "*", "*", ":">> >>)
DocC == Doc(<<Field(KeyDate, D2)>>,
            << <<"*", "*", "w", "*", "*", ":", " ", "x">>,
               <<"#", "#", " ", "T">>,
               <<"*", "*">> \o WADDY \o <<"*", "*", ":">>,
               <<"*", "*", "b", "*", "*">>,
               <<>>,
               <<"z">> >>)
DocD == Text(<< <<"#", "#", " ", "U">>, <<"p">> >>)
DocE == Doc(<<Field(KeyTitle, <<"B">>), Field(KeyDate, D3)>>, <<>>)

\* Directory entries: five documents and a file that is not a document
DocPool ==
    {[name |-> <<"a">> \o MD, raw |-> DocA],
     [name |-> <<"b">> \o MD, raw |-> DocB],
     [name |-> <<"c">> \o MD, raw |-> DocC],
     [name |-> <<"G", " ", "h">> \o MD, raw |-> DocD],
     [name |-> <<"e">> \o MD, raw |-> DocE],
     [name |-> <<"m", "e", "m", "o">>, raw |-> <<>>]}

\* Every listing of up to MaxFiles distinct entries, in every order
Listings ==
    {l \in UNION {[1..n -> DocPool] : n \in 0..MaxFiles} :
        \A i, j \in 1..Len(l) : i # j => l[i] # l[j]}

\* Documents written line by line: up to MaxDocLines lines, with or without
\* a byte-order mark, with LF or CR LF, the last line terminated or not
DocLinePool ==
    {DELIM, KeyDate \o <<":">>, KeyDate \o <<":", " ", "<">>, <<"x">>}

LineDocs ==
    {(IF v.bom THEN <<BOM>> ELSE <<>>) \o Join(ls, v.eol)
         \o (IF v.trail THEN v.eol ELSE <<>>) :
        ls \in UNION {[1..n -> DocLinePool] : n \in 0..MaxDocLines},
        v \in {[bom |-> FALSE, eol |-> <<LF>>, trail |-> FALSE],
               [bom |-> FALSE, eol |-> <<LF>>, trail |-> TRUE],
               [bom |-> TRUE, eol |-> <<LF>>, trail |-> TRUE],
               [bom |-> FALSE, eol |-> <<CR, LF>>, trail |-> TRUE]}}

\* The output files before the run: none, or those of an earlier run
OldData == <<"(earlier run)">>
FsInputs ==
    {[outFile |-> NoFile, outDir |-> NoDir],
     [outFile |-> [exists |-> TRUE, data |-> OldData],
      outDir |-> [exists |-> TRUE,
                  files |-> [n \in {<<"m", "e", "m", "o">>,
                                    OutFileName(0, [file |-> <<"a">> \o MD,
                                                    meta |-> parseFrontmatter(DocA).meta]),
                                    EPISODE \o <<"-", "0", "9", "-", "z">> \o YAML_EXT}
                             |-> OldData]]]}

\* The diary directory: entries of three months (two of them in one month),
\* a .md name that parseFilename refuses, and a file that is not .md
DiaryPool ==
    {[name |-> <<"2", "0", "2", "4", "-", "0", "1", "-", "0", "5", "_", "a", ".", "m", "d">>, raw |-> <<BOM, "#", " ", "T", LF, LF, "p">>],
     [name |-> <<"2", "0", "2", "4", "-", "0", "1", "-", "2", "0", "_", "b", ".", "m", "d">>, raw |-> <<"q">>],
     [name |-> <<"2", "0", "2", "4", "-", "0", "2", "-", "0", "1", "_", "c", ".", "m", "d">>, raw |-> <<"#", "h", CR, LF, "r", LF>>],
     [name |-> <<"2", "0", "2", "3", "-", "1", "2", "-", "3", "1", "_", "d", ".", "m", "d">>, raw |-> <<"s">>],
     [name |-> <<"2", "0", "2", "4", "-", "1", "-", "0", "5", "_", "x", ".", "m", "d">>, raw |-> <<"x">>],
     [name |-> <<"a", ".", "t", "x", "t">>, raw |-> <<"t">>]}

MaxDiaryFiles == 3

\* readdir gives the files in any order
DiaryListings ==
    {d \in UNION {[1..n -> DiaryPool] : n \in 0..MaxDiaryFiles} :
        \A i, j \in DOMAIN d : i # j => d[i] # d[j]}

OldPage == [kind |-> "earlier run"]
SiteInputs ==
    {NoSite,
     [n \in {DIARY_HTML, DIARY_HINA_HTML, MonthPageName(<<"2", "0", "2", "3", "-", "1", "2">>), MonthPageName(<<"2", "0", "2", "3", "-", "1", "1">>)}
        |-> OldPage]}

InitRun ==
    /\ script \in {"build-dialogue", "build-video-scripts"} \cup DiaryScripts
    /\ pc = IF script = "build-video-scripts" THEN "mkdir" ELSE "readdir"
    /\ IF script \in DiaryScripts
       THEN /\ dialogueDir = <<>>
            /\ fs0 = [outFile |-> NoFile, outDir |-> NoDir]
            /\ diaryDir \in DiaryListings
            /\ site0 \in SiteInputs
       ELSE /\ \/ dialogueDir \in Listings /\ fs0 \in FsInputs
               \/ /\ dialogueDir \in {<<[name |-> <<"f">> \o MD, raw |-> r]>> : r \in LineDocs}
                  /\ fs0 = [outFile |-> NoFile, outDir |-> NoDir]
            /\ diaryDir = <<>>
            /\ site0 = NoSite
    /\ outFile = fs0.outFile /\ outDir = fs0.outDir
    /\ site = site0
    /\ DiaryIdle
    /\ MainIdle
    /\ InlineIdle /\ TableIdle /\ SceneIdle /\ ParseIdle

NextRun ==
    \/ DlgReadDir
    \/ DlgReadFile
    \/ DlgAssemble
    \/ DlgWriteFile
    \/ VidMkdir
    \/ VidReadOutDir
    \/ VidUnlink
    \/ VidReadDir
    \/ VidReadFile
    \/ VidSort
    \/ VidWriteFile
    \/ DiaryReadDir
    \/ DiaryReadFile
    \/ DiaryParse
    \/ DiaryAssemble
    \/ DiaryWriteFile
    \/ Throws

SpecRun == InitRun /\ [][NextRun]_vars

(***************************************************************************)
(* Properties of the front-matter extraction and of the page assembly      *)
(***************************************************************************)
\* A file has been read: raw and fm are those of the file read last
FileRead == pc # "readdir" /\ (dialogues # <<>>)

\* The build has assembled the page of a non-empty directory
Assembled ==
    script = "build-dialogue" /\ files # <<>> /\ pc \in {"writeFile", "done", "failed"}
    /\ emitted # <<>>

\* C2: every source-derived text fragment of the page (title, subtitle, date,
\* section title, speaker, speech paragraph, quote, image, table cell) is the
\* inline renderer's output for that text.
C2_EveryFragmentRendered ==
    \A k \in 1..Len(emitted) :
        emitted[k].kind # "markup" => emitted[k].html = renderInline(emitted[k].src)

\* The document as its author wrote it: lines, the first a delimiter line,
\* then key: value lines, then a delimiter line
DocLines(text) == SplitLines(StripBom(text))
HasOpening(text) == DocLines(text)[1] = DELIM
ClosingLine(text) ==
    FirstIndex(2, Len(DocLines(text)), LAMBDA k : DocLines(text)[k] = DELIM)
ColonAt(line) == FirstIndex(1, Len(line), LAMBDA i : line[i] = ":")
DeclaredKey(line) == TrimEnd(SubSeq(line, 1, ColonAt(line) - 1))
DeclaredValue(line) == Trim(From(line, ColonAt(line) + 1))
IsFieldLine(line) ==
    /\ ColonAt(line) > 1
    /\ DeclaredKey(line) # <<>>
    /\ \A i \in 1..Len(DeclaredKey(line)) : IsWord(DeclaredKey(line)[i])

\* A well-formed block: at least one field line, every line of the block a
\* field line, no key declared twice
WellFormed(text) ==
    LET ls == DocLines(text)
        c == ClosingLine(text)
    IN  /\ HasOpening(text)
        /\ c >= 3
        /\ \A k \in 2..(c - 1) : IsFieldLine(ls[k])
        /\ \A j, k \in 2..(c - 1) : j # k => DeclaredKey(ls[j]) # DeclaredKey(ls[k])

DeclaredMeta(text) ==
    LET ls == DocLines(text)
        c == ClosingLine(text)
    IN  [key \in {DeclaredKey(ls[k]) : k \in 2..(c - 1)} |->
            DeclaredValue(ls[CHOOSE k \in 2..(c - 1) : DeclaredKey(ls[k]) = key])]

\* The text that follows the closing delimiter line
DeclaredBody(text) ==
    LET cleaned == StripBom(text)
        n == Len(DocLines(text)) - ClosingLine(text)
    IN  IF n = 0 THEN <<>>
        ELSE From(cleaned,
                  CHOOSE i \in 2..(Len(cleaned) + 1) :
                      cleaned[i - 1] = LF /\ Len(SplitLines(From(cleaned, i))) = n)

\* C7: for a document that begins with a well-formed front-matter block,
\* parseFrontmatter returns exactly the declared keys, each with its trimmed
\* value (an empty value included), and the body without the block (also
\* when the closing delimiter is the last line of the file).
C7_WellFormedBlockExtracted ==
    (FileRead /\ WellFormed(raw)) =>
        fm = [meta |-> DeclaredMeta(raw), body |-> DeclaredBody(raw)]

\* No opening delimiter line, or no closing delimiter line after it
LacksFrontmatter(text) == ~HasOpening(text) \/ ClosingLine(text) = 0

\* C8: a document with no opening delimiter, or no matching closing
\* delimiter, parses to an empty mapping and a body equal to the input minus
\* a leading byte-order mark, and the build still parses and renders it,
\* with empty metadata.
C8_NoFrontmatterEmptyMeta ==
    /\ (FileRead /\ LacksFrontmatter(raw)) =>
           fm = [meta |-> EmptyMeta, body |-> StripBom(raw)]
    /\ \A k \in 1..Len(dialogueDir) :
          LET e == dialogueDir[k]
          IN  (EndsWith(e.name, MD) /\ LacksFrontmatter(e.raw) /\ Assembled) =>
                /\ \E j \in 1..Len(dialogues) :
                      /\ dialogues[j].file = e.name
                      /\ dialogues[j].meta = EmptyMeta
                      /\ dialogues[j].sections = parseDialogue(StripBom(e.raw))
                /\ \E j \in 1..Len(emitted) :
                      /\ emitted[j].file = e.name
                      /\ emitted[j].kind = "title"
                      /\ emitted[j].src = UNTITLED

C8_Witness ==
    /\ Assembled /\ pc = "done"
    /\ raw # <<>> /\ Head(raw) = BOM /\ HasOpening(raw) /\ ClosingLine(raw) = 0
    /\ fm.body = Tail(raw)

\* The files in the order the page renders them
RenderOrder ==
    LET titles == SelectSeq(emitted, LAMBDA piece : piece.kind = "title")
    IN  [k \in 1..Len(titles) |-> titles[k].file]

\* The front-matter date of a file, the empty string when it has none
DateOf(file) ==
    LET d == dialogues[CHOOSE j \in 1..Len(dialogues) : dialogues[j].file = file]
    IN  IF KeyDate \in DOMAIN d.meta THEN d.meta[KeyDate] ELSE <<>>

\* The position of a file in the directory listing
ListingIndex(file) == CHOOSE k \in 1..Len(dialogueDir) : dialogueDir[k].name = file

\* The code unit of a character of a date
CodeUnit(c) ==
    CASE c = "-" -> 45 [] c = "0" -> 48 [] c = "1" -> 49 [] c = "2" -> 50
      [] c = "3" -> 51 [] c = "4" -> 52 [] c = "<" -> 60

\* a < b, lexicographically
LexLess(a, b) ==
    \E k \in 1..Len(b) :
        /\ k <= Len(a) + 1
        /\ SubSeq(a, 1, k - 1) = SubSeq(b, 1, k - 1)
        /\ (k = Len(a) + 1 \/ CodeUnit(a[k]) < CodeUnit(b[k]))

C9_WitnessTie ==
    /\ Assembled /\ pc = "done"
    /\ [k \in 1..Len(dialogueDir) |-> dialogueDir[k].raw] = <<DocD, DocE, DocB>>
    /\ [k \in 1..Len(RenderOrder) |-> DateOf(RenderOrder[k])] = <<D3, D3, <<>> >>

(***************************************************************************)
(* Properties of the runs of the two scripts                               *)
(***************************************************************************)
\* The files of the output directory that are video scripts
YamlNames(dir) == {n \in DOMAIN dir.files : EndsWith(n, YAML_EXT)}

\* The run found no document in DIALOGUE_DIR and returned
ZeroDocuments == pc = "done" /\ MdNames(dialogueDir) = <<>>

\* C4: a run over a directory without .md files warns, exits with status 0
\* and leaves the output file and every file of the output directory
\* (the scripts of an earlier run included) as they were before the run.
C4_ZeroFilesNoOp ==
    ZeroDocuments =>
        /\ warned /\ exitCode = 0
        /\ outFile = fs0.outFile
        /\ outDir.files = fs0.outDir.files

\* The complete new contents of the outputs of this run
NewPage == PageHtml(contentHtml)
NewScript(name) ==
    \E i \in 1..Len(generated) :
        /\ generated[i] = name
        /\ outDir.files[name] = renderYaml(episodes[i].meta, Scenes(episodes[i]))

\* C5: after a run that failed, every output file that existed before the
\* run is still there, unchanged or wholly replaced by a complete new file.
C5_FailedRunKeepsOutputs ==
    pc = "failed" =>
        /\ fs0.outFile.exists =>
              outFile.exists /\ (outFile = fs0.outFile \/ outFile.data = NewPage)
        /\ \A n \in YamlNames(fs0.outDir) :
              /\ n \in DOMAIN outDir.files
              /\ outDir.files[n] = fs0.outDir.files[n] \/ NewScript(n)

\* The exporter ended a run over at least one document
Exported == script = "build-video-scripts" /\ pc = "done" /\ files # <<>>

\* C6: after a successful run of the exporter over N >= 1 documents the
\* output directory holds exactly N .yaml files, one per document, under
\* pairwise distinct names, and no .yaml file of an earlier run is left
\* unless this run wrote a file of that name.
C6_OneScriptPerDocument ==
    Exported =>
        /\ Len(generated) = Len(files)
        /\ \A i, j \in 1..Len(generated) : i # j => generated[i] # generated[j]
        /\ Cardinality(YamlNames(outDir)) = Len(files)
        /\ YamlNames(outDir) = {generated[i] : i \in 1..Len(generated)}
        /\ {episodes[i].file : i \in 1..Len(episodes)} = {files[i] : i \in 1..Len(files)}
        /\ \A i \in 1..Len(generated) :
              outDir.files[generated[i]] = renderYaml(episodes[i].meta, Scenes(episodes[i]))
        /\ \A n \in YamlNames(fs0.outDir) :
              n \in DOMAIN outDir.files => NewScript(n)

\* Two documents of the run have the same title part, a script of an earlier
\* run was regenerated and another one is gone
C6_Witness ==
    /\ Exported
    /\ \E i, j \in 1..Len(episodes) : i # j /\ TitlePart(episodes[i]) = TitlePart(episodes[j])
    /\ \E n \in YamlNames(fs0.outDir) : n \in DOMAIN outDir.files
    /\ \E n \in YamlNames(fs0.outDir) : n \notin DOMAIN outDir.files

(***************************************************************************)
(* toSceneLines on its own                                                 *)
(***************************************************************************)
MaxSpeakerLen == 3
MaxBlocks == 2

\* Speaker names: the two characters of the child's name, spaces, another letter
SpeakerAlphabet == {HINA[1], HINA[2], " ", IDSP, "w"}
Speakers == StringsUpTo(SpeakerAlphabet, MaxSpeakerLen) \ {<<>>}

SpeechBlock(speaker, paragraphs) ==
    [type |-> "speech", speaker |-> speaker, paragraphs |-> paragraphs]

\* Blocks of every type, some of them without text to narrate
MixedBlocks ==
    {SpeechBlock(HINA, << <<"x">> >>),
     SpeechBlock(<<" ", HINA[1], " ", HINA[2], "w">>, << <<"x">>, <<"y">> >>),
     SpeechBlock(WADDY, << <<"*", "*", "x", "*", "*">> >>),
     SpeechBlock(HINA, <<>>),
     [type |-> "quote", text |-> <<"q">>],
     [type |-> "image", raw |-> <<"!", "[", "a", "]", "(", "u", ")">>],
     [type |-> "table", lines |-> ExampleTable],
     [type |-> "table", lines |-> << <<"|", "-", "|">> >>],
     [type |-> "text", text |-> HINA \o <<"p">>]}

SceneInputs ==
    {[title |-> HINA, blocks |-> <<SpeechBlock(sp, ps)>>] :
        sp \in Speakers, ps \in {<< <<"x">> >>, << <<" ">>, <<"x">> >>}}
    \cup {[title |-> <<"S">>, blocks |-> bs] :
            bs \in UNION {[1..n -> MixedBlocks] : n \in 0..MaxBlocks}}

InitScene ==
    /\ pc = "call"
    /\ section \in SceneInputs
    /\ sceneLines = <<>>
    /\ InlineIdle /\ TableIdle /\ RunIdle /\ ParseIdle

CallToSceneLines ==
    /\ pc = "call"
    /\ sceneLines' = toSceneLines(section)
    /\ pc' = "returned"
    /\ UNCHANGED <<section, notScene>>

NextScene == CallToSceneLines

SpecScene == InitScene /\ [][NextScene]_vars

\* The speaker name without its whitespace begins with the child's name
ChildSpeaker(speaker) ==
    LET name == SelectSeq(speaker, LAMBDA c : c \notin {" ", TAB, LF, CR, IDSP, BOM})
    IN  Len(name) >= Len(HINA) /\ SubSeq(name, 1, Len(HINA)) = HINA

\* C10: a line narrated from a speech block is on the right channel exactly
\* when the speaker's name, whitespace removed, begins with the child's name,
\* and on the left channel otherwise; the line of the section title and the
\* lines of quote, image, table and text blocks are on the left channel.
C10_ChannelBySpeaker ==
    pc = "returned" =>
        \A k \in 1..Len(sceneLines) :
            LET line == sceneLines[k]
            IN  IF line.blk = 0 THEN line.speaker = "left"
                ELSE IF section.blocks[line.blk].type = "speech"
                THEN line.speaker =
                        (IF ChildSpeaker(section.blocks[line.blk].speaker)
                         THEN "right" ELSE "left")
                ELSE line.speaker = "left"

\* A speech block whose speaker is the child's name written with spaces was
\* narrated on the right channel
C10_Witness ==
    /\ pc = "returned"
    /\ \E k \in 1..Len(sceneLines) :
          /\ sceneLines[k].blk # 0
          /\ section.blocks[sceneLines[k].blk].type = "speech"
          /\ Head(section.blocks[sceneLines[k].blk].speaker) = " "
          /\ sceneLines[k].speaker = "right"

(***************************************************************************)
(* Properties of the scenes of an episode                                  *)
(***************************************************************************)
\* The exporter has built the scenes of an episode; it is the episode at
\* the index of the name generated last
SceneBuilt == script = "build-video-scripts" /\ generated # <<>>
LastEpisode == episodes[Len(generated)]

\* A front-matter field that is there and not empty
Present(meta, key) == key \in DOMAIN meta /\ meta[key] # <<>>

\* What the lines of the intro scene say, in order
IntroSays(meta) ==
    <<<<FACE_JOY>> \o stripMarkdown(IF Present(meta, KeyTitle) THEN meta[KeyTitle]
                                     ELSE UNTITLED)>>
    \o (IF Present(meta, KeySubtitle)
        THEN <<<<FACE_NEUTRAL>> \o stripMarkdown(meta[KeySubtitle])>> ELSE <<>>)
    \o (IF Present(meta, KeyDate) THEN <<RECORDED_ON \o meta[KeyDate]>> ELSE <<>>)

\* The indices of the blocks of a section whose stripped text is not empty
NarratedBlocks(sec) ==
    {k \in 1..Len(sec.blocks) : stripMarkdown(BlockSource(sec.blocks[k])) # <<>>}

\* scene-NN for the section at position k (k < 100)
SceneId(k) == <<"s", "c", "e", "n", "e", "-", Digit(k \div 10), Digit(k % 10)>>

\* C11: an episode has 1 + (number of sections) scenes: the scene intro
\* with the title line, the subtitle line if there is a subtitle and the date
\* line if there is a date, in that order, then for the k-th section the scene
\* scene-NN of its index, which starts with the line of the section title and
\* goes on with one line per block whose stripped text is not empty, in the
\* order of the blocks.
C11_ScenesOfEpisode ==
    SceneBuilt =>
        /\ Len(scenes) = 1 + Len(LastEpisode.sections)
        /\ scenes[1].id = <<"i", "n", "t", "r", "o">>
        /\ [k \in 1..Len(scenes[1].lines) |-> scenes[1].lines[k].say]
              = IntroSays(LastEpisode.meta)
        /\ \A k \in 1..Len(LastEpisode.sections) :
              LET sec == LastEpisode.sections[k]
                  lines == scenes[k + 1].lines
              IN  /\ scenes[k + 1].id = SceneId(k)
                  /\ Len(lines) = 1 + Cardinality(NarratedBlocks(sec))
                  /\ lines[1].blk = 0
                  /\ lines[1].say = <<FACE_NEUTRAL>> \o stripMarkdown(sec.title)
                  /\ {lines[n].blk : n \in 2..Len(lines)} = NarratedBlocks(sec)
                  /\ \A n \in 2..(Len(lines) - 1) : lines[n].blk < lines[n + 1].blk

\* An episode with subtitle and date and a section in which one block is
\* narrated and another one is not
C11_Witness ==
    /\ SceneBuilt
    /\ Present(LastEpisode.meta, KeySubtitle) /\ Present(LastEpisode.meta, KeyDate)
    /\ \E k \in 1..Len(LastEpisode.sections) :
          /\ Cardinality(NarratedBlocks(LastEpisode.sections[k])) >= 2
          /\ Cardinality(NarratedBlocks(LastEpisode.sections[k]))
                < Len(LastEpisode.sections[k].blocks)


(***************************************************************************)
(* C12: the diary builds skip the files whose names do not match           *)
(***************************************************************************)
DiaryNames == MdNames(diaryDir)
ValidNames == {DiaryNames[k] : k \in {j \in 1..Len(DiaryNames) : parseFilename(DiaryNames[j]).ok}}
InvalidNames == {DiaryNames[k] : k \in 1..Len(DiaryNames)} \ ValidNames

\* What a page shows in full of an entry: its title and its HTML
PageItems(page) == IF page.kind \in {"main", "month"} THEN page.full ELSE page.items
Shown(page) == {<<PageItems(page)[k].title, PageItems(page)[k].html>> : k \in 1..Len(PageItems(page))}
ShownOf(name) == <<parseFilename(name).title, Marked(DiaryBody(DiaryText(name)))>>
Rendered == UNION {Shown(site[written[k]]) : k \in 1..Len(written)}
LoopEnded == pc \in {"assemble", "writeFile", "done"}

\* C12: in the diary builds a .md file whose name does not match is skipped
\* with a warning and never read; the loop goes on with the files after it, so
\* that when it ends the entries are exactly the files whose names match, and
\* the pages of a run that completes show exactly those.
C12_InvalidNamesSkipped ==
    script \in DiaryScripts =>
        /\ readLog \subseteq ValidNames
        /\ {skipped[k] : k \in 1..Len(skipped)} \subseteq InvalidNames
        /\ (skipped # <<>> => warned)
        /\ LoopEnded =>
              /\ {skipped[k] : k \in 1..Len(skipped)} = InvalidNames
              /\ readLog = ValidNames
              /\ Len(entries) = Cardinality(ValidNames)
              /\ {<<entries[k].title, entries[k].html>> : k \in 1..Len(entries)}
                     = {ShownOf(n) : n \in ValidNames}
        /\ pc = "done" => Rendered = {ShownOf(n) : n \in ValidNames}

\* A run that completed although the first file listed was skipped: the two
\* files listed after it were read and rendered
C12_Witness ==
    /\ script \in DiaryScripts /\ pc = "done"
    /\ Len(files) = 3 /\ ~parseFilename(files[1]).ok
    /\ Len(entries) = 2
(***************************************************************************)
(* C13: the exit status of a run                                           *)
(***************************************************************************)
Ended == pc \in {"done", "failed"}
outputs == <<outFile, outDir, site>>

\* C13: in every build script the run exits with status 0 exactly when no step
\* threw; the step that throws reads and writes nothing, the run takes no step
\* after it, and it exits with a status other than 0.
C13_ExitStatus ==
    /\ [](IF pc = "done" THEN exitCode = 0
           ELSE IF pc = "failed" THEN exitCode \notin {0, -1}
           ELSE exitCode = -1)
    /\ [][/\ ~Ended
          /\ pc' = "failed" =>
                /\ UNCHANGED <<outputs, readLog, generated, written, raw>>]_vars

\* The exporter threw after it had written one script and before the next
C13_Witness ==
    /\ pc = "failed" /\ script = "build-video-scripts"
    /\ Len(generated) = 1 /\ Len(files) > 1
(***************************************************************************)
(* The two parseDialogue, run side by side on one body, a line at a step   *)
(***************************************************************************)
MaxBodyLines == 4

\* The kinds of line the segmenters tell apart: a heading, a speaker line,
\* a blank line, an image, a table row, a quote and plain text
HeadingLine == <<"#", "#", " ", "S">>
SpeakerLine == <<"*", "*", "w", "*", "*", ":", " ", "x">>
BlankLine == <<" ">>
ImageLine == <<"!", "[", "a", "]", "(", "b", ")">>
TableLine == <<"|", "a", "|">>
QuoteLine == <<">", " ", "q">>
PlainLine == <<"y">>
LinePool ==
    {HeadingLine, SpeakerLine, BlankLine, ImageLine, TableLine, QuoteLine, PlainLine}

Bodies == {Join(ls, <<LF>>) : ls \in UNION {[1..n -> LinePool] : n \in 1..MaxBodyLines}}

\* The line numbers of the blocks after a step from st to st2 on line n: a
\* speech block that was pushed keeps the number of its speaker line, any
\* other new block was opened by line n
OriginsAfter(st, st2, org, line, n) ==
    LET k == Len(st.sections)
        grown == IF k = 0 THEN <<>>
                 ELSE [j \in 1..(Len(st2.sections[k].blocks) - Len(st.sections[k].blocks)) |->
                         IF st2.sections[k].blocks[Len(st.sections[k].blocks) + j].type = "speech"
                         THEN org.open ELSE n]
        secs == IF k = 0 THEN org.sections ELSE [org.sections EXCEPT ![k] = @ \o grown]
    IN  [sections |-> IF Len(st2.sections) > k THEN Append(secs, <<>>) ELSE secs,
         open |-> IF st2.block = NoBlock THEN 0
                  ELSE IF SpeakerMatch(line).ok THEN n ELSE org.open]

InitParse ==
    /\ pc = "line"
    /\ bodyLines \in {SplitLines(b) : b \in Bodies}
    /\ lineNo = 0
    /\ htmlSt = NoParse /\ videoSt = NoParse
    /\ htmlOrigin = NoOrigin /\ videoOrigin = NoOrigin
    /\ InlineIdle /\ TableIdle /\ SceneIdle /\ RunIdle

\* One iteration of for (const line of lines), in both parsers
ParseLine ==
    /\ pc = "line" /\ lineNo < Len(bodyLines)
    /\ lineNo' = lineNo + 1
    /\ htmlSt' = DialogueLine(htmlSt, bodyLines[lineNo'])
    /\ videoSt' = VideoDialogueLine(videoSt, bodyLines[lineNo'])
    /\ htmlOrigin' = OriginsAfter(htmlSt, htmlSt', htmlOrigin, bodyLines[lineNo'], lineNo')
    /\ videoOrigin' = OriginsAfter(videoSt, videoSt', videoOrigin, bodyLines[lineNo'], lineNo')
    /\ UNCHANGED <<pc, bodyLines, notParse>>

\* The end of the loop: the last flush and return sections
ParseReturn ==
    /\ pc = "line" /\ lineNo = Len(bodyLines)
    /\ pc' = "return"
    /\ htmlSt' = [sections |-> FlushBlock(htmlSt), block |-> NoBlock]
    /\ videoSt' = [sections |-> FlushSpeech(videoSt), block |-> NoBlock]
    /\ htmlOrigin' = OriginsAfter(htmlSt, htmlSt', htmlOrigin, <<>>, lineNo)
    /\ videoOrigin' = OriginsAfter(videoSt, videoSt', videoOrigin, <<>>, lineNo)
    /\ UNCHANGED <<bodyLines, lineNo, notParse>>

NextParse ==
    \/ ParseLine
    \/ ParseReturn

SpecParse == InitParse /\ [][NextParse]_vars
\* The rule a line matches first, in the order of the tests of the loop
LineKind(line) ==
    IF HeadingMatch(line).ok THEN "heading"
    ELSE IF SpeakerMatch(line).ok THEN "speaker"
    ELSE IF Trim(line) = <<>> THEN "blank"
    ELSE IF IsImageLine(Trim(line)) THEN "image"
    ELSE IF Head(Trim(line)) = "|" THEN "table"
    ELSE IF Head(Trim(line)) = ">" THEN "quote"
    ELSE "plain"

\* The line the loop took last
LastLine == bodyLines[lineNo]
InLoop == pc = "line" /\ lineNo >= 1

\* A speech block is open and there is a section to push it to
OpenSpeech(st) == st.block # NoBlock /\ st.sections # <<>>

(***************************************************************************)
(* C14: what ends a speech block                                           *)
(***************************************************************************)
\* The speech block that is open was open before the blank line that came
\* before the last line, and the last line, plain text, is its last paragraph
JoinedAcrossBlank(st, org) ==
    /\ lineNo >= 3
    /\ LineKind(bodyLines[lineNo - 1]) = "blank"
    /\ LineKind(LastLine) = "plain"
    /\ OpenSpeech(st)
    /\ org.open < lineNo - 1
    /\ st.block.paragraphs # <<>>
    /\ st.block.paragraphs[Len(st.block.paragraphs)] = Trim(LastLine)

\* C14: in both parsers a blank line ends the speech block that is open, as
\* does a heading, an image, a table row or a quote, and a speaker line leaves
\* open only the block it starts; a plain line after a blank line is not
\* appended to the speech block that was open before the blank line.
C14_BlankLineEndsSpeech ==
    InLoop =>
        /\ LineKind(LastLine) \in {"blank", "heading", "image", "table", "quote"} =>
              ~OpenSpeech(htmlSt) /\ ~OpenSpeech(videoSt)
        /\ LineKind(LastLine) = "speaker" =>
              htmlOrigin.open = lineNo /\ videoOrigin.open = lineNo
        /\ ~JoinedAcrossBlank(htmlSt, htmlOrigin)
        /\ ~JoinedAcrossBlank(videoSt, videoOrigin)
(***************************************************************************)
(* C15: the rows of one table block                                        *)
(***************************************************************************)
\* The number of the line that opened the last block of the current section
LastOrigin(org) ==
    LET s == org.sections[Len(org.sections)] IN s[Len(s)]

\* The last line is a table row of a section and the line before it is one
AfterTableRow == lineNo >= 2 /\ LineKind(bodyLines[lineNo - 1]) = "table"

\* The row taken last joined the table block of the row before it exactly
\* when that row is the line before it; otherwise it opened a table block
RowsGroupedWhileConsecutive(st, org) ==
    (LineKind(LastLine) = "table" /\ st.sections # <<>>) =>
        /\ LastBlock(st.sections).type = "table"
        /\ AfterTableRow => LastOrigin(org) < lineNo
        /\ ~AfterTableRow => LastOrigin(org) = lineNo

\* C15: in both parsers table rows are collected into one table block only
\* while they are consecutive lines; after any other line (blank, plain text,
\* quote, image, speaker line) the next row starts a new table block.
C15_TableRowsConsecutive ==
    InLoop =>
        /\ RowsGroupedWhileConsecutive(htmlSt, htmlOrigin)
        /\ RowsGroupedWhileConsecutive(videoSt, videoOrigin)
(***************************************************************************)
(* C16: the rule a line is classified by                                   *)
(***************************************************************************)
\* What the rule of the line does to the state st of a parser, giving st2
Classified(st, st2, line) ==
    LET k == LineKind(line)
    IN  /\ k = "heading" =>
              /\ Len(st2.sections) = Len(st.sections) + 1
              /\ st2.sections[Len(st2.sections)] =
                     [title |-> HeadingMatch(line).title, blocks |-> <<>>]
              /\ st2.block = NoBlock
        /\ k = "speaker" =>
              /\ st2.block # NoBlock
              /\ st2.block.speaker = SpeakerMatch(line).speaker
              /\ Len(st2.block.paragraphs) <= 1
        /\ k = "blank" => st2.sections = st.sections
        /\ k \in {"image", "table", "quote"} =>
              /\ st2.block = NoBlock
              /\ st.sections # <<>> => LastBlock(st2.sections).type = k
        /\ (k = "plain" /\ st.block # NoBlock) =>
              /\ st2.block = [st.block EXCEPT !.paragraphs = Append(@, Trim(line))]
              /\ st2.sections = st.sections
        /\ (k = "plain" /\ st.block = NoBlock /\ st.sections # <<>>) =>
              /\ st2.block = NoBlock
              /\ st2.sections = PushBlock(st.sections, [type |-> "text", text |-> Trim(line)])

\* C16: both parsers classify every line by the first rule it matches, in
\* the order heading, speaker, blank, image, table row, quote, continuation
\* of the open speech block, plain text, by the line and the open block
\* alone; a non-blank line that matches no marker while no speech block is
\* open becomes a text block of the current section.
C16_FirstMatchingRule ==
    [][(pc = "line" /\ lineNo' = lineNo + 1) =>
          /\ Classified(htmlSt, htmlSt', bodyLines[lineNo'])
          /\ Classified(videoSt, videoSt', bodyLines[lineNo'])]_vars
(***************************************************************************)
(* C17: the order of the blocks and the speakers of the speech blocks      *)
(***************************************************************************)
\* What parseDialogue returns for the lines taken so far: the sections after
\* the last flush, and the line numbers of their blocks
Returned(st) == FlushBlock(st)
ReturnedOrigin(st, org) ==
    IF OpenSpeech(st)
    THEN [org.sections EXCEPT ![Len(org.sections)] = Append(@, org.open)]
    ELSE org.sections

\* Block b is the block that the line opens
OpenedBy(b, line) ==
    /\ b.type = "speech" => SpeakerMatch(line).ok /\ b.speaker = SpeakerMatch(line).speaker
    /\ b.type = "image" => LineKind(line) = "image" /\ b.raw = Trim(line)
    /\ b.type = "table" => LineKind(line) = "table" /\ b.lines[1] = Trim(line)
    /\ b.type = "quote" => LineKind(line) = "quote" /\ b.text = QuoteText(Trim(line))
    /\ b.type = "text" => LineKind(line) = "plain" /\ b.text = Trim(line)

\* The blocks of every section are in the order of the lines that opened
\* them, and no speech block has an empty speaker
InSourceOrder(secs, org) ==
    /\ Len(org) = Len(secs)
    /\ \A s \in 1..Len(secs) :
          /\ Len(org[s]) = Len(secs[s].blocks)
          /\ \A j \in 1..Len(org[s]) :
                /\ org[s][j] \in 1..lineNo
                /\ OpenedBy(secs[s].blocks[j], bodyLines[org[s][j]])
                /\ j > 1 => org[s][j - 1] < org[s][j]
                /\ secs[s].blocks[j].type = "speech" => secs[s].blocks[j].speaker # <<>>

\* C17: for every body and after every prefix of its lines, in both parsers,
\* the blocks of each section are in the order of the source lines that
\* opened them (the speech block pushed at a flush included), and every
\* speech block has a non-empty speaker name.
C17_BlocksInSourceOrder ==
    /\ InSourceOrder(Returned(htmlSt), ReturnedOrigin(htmlSt, htmlOrigin))
    /\ InSourceOrder(Returned(videoSt), ReturnedOrigin(videoSt, videoOrigin))

\* Both parsers returned a section whose speech block, pushed when the line
\* after it flushed it, stands between the block before and the block after
C17_Witness ==
    /\ pc = "return"
    /\ \E s \in 1..Len(htmlSt.sections) :
          /\ Len(htmlSt.sections[s].blocks) = 3
          /\ htmlSt.sections[s].blocks[2].type = "speech"
          /\ htmlSt.sections[s].blocks[3].type # "speech"
          /\ Len(videoSt.sections[s].blocks) = 3
          /\ videoSt.sections[s].blocks[2].type = "speech"
(***************************************************************************)
(* C18: the two parsers on one body                                        *)
(***************************************************************************)
\* The blocks of a section of the exporter without its text blocks
WithoutText(blocks) == SelectSeq(blocks, LAMBDA b : b.type # "text")

\* C18: on every body the two parsers return the same section titles and,
\* in each section, the same speech, image, table and quote blocks with the
\* same contents (the same rows in each table block); they differ only in
\* the text blocks the exporter adds.
C18_ParsersAgree ==
    pc = "return" =>
        /\ Len(videoSt.sections) = Len(htmlSt.sections)
        /\ \A s \in 1..Len(htmlSt.sections) :
              /\ videoSt.sections[s].title = htmlSt.sections[s].title
              /\ WithoutText(videoSt.sections[s].blocks) = htmlSt.sections[s].blocks
(***************************************************************************)
(* C19: the pages of the monthly diary build                               *)
(***************************************************************************)
\* The digits of a date YYYY-MM-DD, or of a month YYYY-MM, as a number
RECURSIVE DigitsNumber(_)
DigitsNumber(s) ==
    IF s = <<>> THEN 0
    ELSE IF IsDigit(s[Len(s)])
    THEN 10 * DigitsNumber(SubSeq(s, 1, Len(s) - 1)) + DigitValue(s[Len(s)])
    ELSE DigitsNumber(SubSeq(s, 1, Len(s) - 1))

MonthOf(name) == parseFilename(name).month
ValidMonths == {MonthOf(n) : n \in ValidNames}
NewestMonth ==
    CHOOSE m \in ValidMonths : \A o \in ValidMonths : DigitsNumber(o) <= DigitsNumber(m)
NamesOfMonth(m) == {n \in ValidNames : MonthOf(n) = m}
WrittenNames == {written[k] : k \in 1..Len(written)}

\* The page shows in full the entries of month m, each once, newest first
ShowsMonth(page, m) ==
    /\ Shown(page) = {ShownOf(n) : n \in NamesOfMonth(m)}
    /\ Len(page.full) = Cardinality(NamesOfMonth(m))
    /\ \A j \in 2..Len(page.full) :
          DigitsNumber(SubSeq(page.full[j].date, 1, 10))
              <= DigitsNumber(SubSeq(page.full[j - 1].date, 1, 10))

\* The link of a page to month m
LinkTo(m) == IF m = NewestMonth THEN HERE \o DIARY_HTML ELSE HERE \o MonthPageName(m)

MonthlyDone == script = "build-diary-monthly" /\ pc = "done"

\* C19: after the monthly build of a non-empty set of valid entries the
\* months are ordered newest first; diary.html shows in full exactly the
\* entries of the newest month; for each other month exactly one page
\* diary-YYYY-MM.html is written and shows exactly the entries of that month;
\* so every valid entry is shown in full on exactly one page; the entries of
\* a page are in descending date order; and each past-month page links to
\* every other month, to the newest one through diary.html.
C19_MonthlyPages ==
    (MonthlyDone /\ ValidNames # {}) =>
        /\ {months[k] : k \in 1..Len(months)} = ValidMonths
        /\ \A k \in 2..Len(months) : DigitsNumber(months[k]) < DigitsNumber(months[k - 1])
        /\ WrittenNames = {DIARY_HTML} \cup {MonthPageName(m) : m \in ValidMonths \ {NewestMonth}}
        /\ Len(written) = Cardinality(WrittenNames)
        /\ ShowsMonth(site[DIARY_HTML], NewestMonth)
        /\ \A m \in ValidMonths \ {NewestMonth} :
              /\ ShowsMonth(site[MonthPageName(m)], m)
              /\ {site[MonthPageName(m)].links[k].href :
                     k \in 1..Len(site[MonthPageName(m)].links)}
                   = {LinkTo(o) : o \in ValidMonths \ {m}}
        /\ \A n \in ValidNames :
              Cardinality({w \in WrittenNames : ShownOf(n) \in Shown(site[w])}) = 1

\* A monthly build of three entries ended: two of them of one month, the
\* third of another, over pages of an earlier run
C19_Witness ==
    /\ MonthlyDone
    /\ Cardinality(ValidNames) = 3 /\ Cardinality(ValidMonths) = 2
    /\ site0 # NoSite

\* A monthly build of three months ended
C19_WitnessThreeMonths ==
    MonthlyDone /\ Cardinality(ValidMonths) = 3
(***************************************************************************)
(* C20: the monthly diary build with no valid entry                        *)
(***************************************************************************)
\* The runs of the monthly diary build.  Node runs the script to its end:
\* whenever a step of the run can be taken it is taken (every await is on a
\* file-system call or on marked.parse, which settle).
InitMonthly == InitRun /\ script = "build-diary-monthly"

NextDiary ==
    \/ DiaryReadDir
    \/ DiaryReadFile
    \/ DiaryParse
    \/ DiaryAssemble
    \/ DiaryWriteFile
    \/ Throws

SpecMonthlyFair == InitMonthly /\ [][NextDiary]_vars /\ WF_vars(NextDiary)

NoValidEntry == script = "build-diary-monthly" /\ ValidNames = {}

\* C20: when the monthly diary build finds no validly named entry (no .md
\* file, or every .md file skipped), the run writes no file, an existing
\* diary.html stays as it was, and the run ends.  (It ends in main().catch,
\* with the TypeError of latestEntries.map on the month that is not there.)
C20_NoEntryNoOutput ==
    /\ [](NoValidEntry => written = <<>> /\ site = site0)
    /\ (NoValidEntry ~> (NoValidEntry /\ Ended))

\* Such a run ended: every .md file was skipped, diary.html of an earlier
\* run is there
C20_Witness ==
    /\ NoValidEntry /\ Ended
    /\ skipped # <<>>
    /\ DIARY_HTML \in DOMAIN site0

\* The same with no .md file at all
C20_WitnessNoFile == NoValidEntry /\ Ended /\ files = <<>> /\ diaryDir # <<>>

==============================================================================
